---- MODULE Spec2Model ----
(***************************************************************************)
(* Interval-set abstract interpretation over fixed-width bit vectors       *)
(* (xls::interval_ops).  Bits are modelled as naturals below 2^bit_count,  *)
(* an Interval as a pair <<lo, hi>>, an IntervalSet as a record            *)
(* [bit_count, intervals] and a TernaryVector as a sequence whose first    *)
(* element is bit 0 (the least significant bit).                           *)
(***************************************************************************)
EXTENDS Integers, Sequences, FiniteSets, TLC

VARIABLES op, operands, arg, tern, result

vars == <<op, operands, arg, tern, result>>

\* ------------------------------------------------------------------ bounds
\* Largest operand width of the runs on two-operand transfer functions.
MaxWidth == 3
\* Largest number of intervals in an operand of a two-operand run.
MaxOperandIntervals == 2
\* Operand width of the runs on one operand, on MinimizeIntervals and on
\* operands with many intervals.
WideWidth == 4
\* Largest number of intervals in an operand of a one-operand run.
MaxIntervals == 3
\* Operand width of the runs that compare MinimizeIntervals with every
\* other superset.
OptimalWidth == 3
\* Width of the bitwise runs that exceed FromTernary's default budget.
BitwiseWideWidth == 6
\* Largest width of a ternary vector given to FromTernary.
MaxTernaryWidth == 6
\* Largest max_interval_bits given to FromTernary.
MaxBudget == 4
\* Largest number of rewrites given to the RAM rewrite pass.
MaxRewrites == 2

\* ------------------------------------------------------------------ Bits
Pow2(n) == 2 ^ n

AllOnes(w) == Pow2(w) - 1

BitsOf(w) == 0 .. AllOnes(w)

\* Bit i (0 = least significant) of x.
GetBit(x, i) == (x \div Pow2(i)) % 2

\* Bit i counted from the most significant bit of a w-bit value.
GetFromMsb(x, w, i) == GetBit(x, w - 1 - i)

bits_Add(x, y, w) == (x + y) % Pow2(w)

bits_Sub(x, y, w) == (x - y + Pow2(w)) % Pow2(w)

bits_Negate(x, w) == (Pow2(w) - x) % Pow2(w)

\* Unsigned division; division by zero yields all ones.
bits_UDiv(x, y, w) == IF y = 0 THEN AllOnes(w) ELSE x \div y

\* Full-precision product (its width is the sum of the operand widths).
bits_UMul(x, y) == x * y

bits_ZeroExtend(x, w, new_w) == x

bits_SignExtend(x, w, new_w) ==
  IF w > 0 /\ GetBit(x, w - 1) = 1 THEN x + (Pow2(new_w) - Pow2(w)) ELSE x

bits_Truncate(x, new_w) == x % Pow2(new_w)

\* Bits::Slice(start, width).
bits_Slice(x, start, width) == (x \div Pow2(start)) % Pow2(width)

\* Concatenation of two values, hi first; lo has lo_w bits.
bits_Concat2(hi, lo, lo_w) == hi * Pow2(lo_w) + lo

\* Number of significant bits of x (0 for x = 0).
RECURSIVE BitLength(_)
BitLength(x) == IF x = 0 THEN 0 ELSE 1 + BitLength(x \div 2)

\* ------------------------------------------------------------------ Interval
Interval(lo, hi) == <<lo, hi>>

LowerBound(i) == i[1]

UpperBound(i) == i[2]

IsImproper(i) == i[1] > i[2]

IntervalIsPrecise(i) == i[1] = i[2]

\* Values denoted by an interval; an improper one wraps around.
IntervalValues(i, w) ==
  IF i[1] <= i[2] THEN i[1] .. i[2]
  ELSE (i[1] .. AllOnes(w)) \cup (0 .. i[2])

IntervalCovers(i, x) == i[1] <= x /\ x <= i[2]

\* Interval::operator<: lexicographic on (lower bound, upper bound).
IntervalLess(i, j) == i[1] < j[1] \/ (i[1] = j[1] /\ i[2] < j[2])

IntervalDisjoint(i, j) == i[2] < j[1] \/ j[2] < i[1]

IntervalConvexHull(i, j) ==
  <<IF i[1] < j[1] THEN i[1] ELSE j[1], IF i[2] > j[2] THEN i[2] ELSE j[2]>>

IntervalMaximal(w) == <<0, AllOnes(w)>>

\* ------------------------------------------------------------------ IntervalSet
IntervalSet(w, ivs) == [bit_count |-> w, intervals |-> ivs]

EmptySet(w) == IntervalSet(w, <<>>)

\* The outcome of a call that a failed CHECK or an uncaught exception
\* stopped: no set is returned.
Fatal == IntervalSet(-1, <<>>)

Precise(x, w) == IntervalSet(w, <<Interval(x, x)>>)

Maximal(w) == IntervalSet(w, <<IntervalMaximal(w)>>)

NonZero(w) ==
  IF w = 0 THEN EmptySet(w) ELSE IntervalSet(w, <<Interval(1, AllOnes(w))>>)

AddInterval(s, i) == IntervalSet(s.bit_count, Append(s.intervals, i))

NumberOfIntervals(s) == Len(s.intervals)

IsEmpty(s) == Len(s.intervals) = 0

\* The set of concrete values an interval set denotes.
Values(s) ==
  UNION {IntervalValues(s.intervals[n], s.bit_count) : n \in 1 .. Len(s.intervals)}

Covers(s, x) ==
  \E n \in 1 .. Len(s.intervals) : IntervalCovers(s.intervals[n], x)

CoversZero(s) == Covers(s, 0)

CoversMax(s) == Covers(s, AllOnes(s.bit_count))

IsPrecise(s) ==
  Len(s.intervals) = 1 /\ IntervalIsPrecise(s.intervals[1])

GetPreciseValue(s) == s.intervals[1][1]

\* Insertion of an interval into a sorted sequence (std::sort's order).
RECURSIVE InsertSorted(_, _)
InsertSorted(i, seq) ==
  IF seq = <<>> THEN <<i>>
  ELSE IF IntervalLess(seq[1], i) THEN <<seq[1]>> \o InsertSorted(i, Tail(seq))
  ELSE <<i>> \o seq

RECURSIVE SortIntervals(_)
SortIntervals(seq) ==
  IF seq = <<>> THEN <<>> ELSE InsertSorted(seq[1], SortIntervals(Tail(seq)))

\* Step 1 of Normalize: an improper interval becomes [lo, MAX] and [0, hi].
RECURSIVE SplitImproper(_, _)
SplitImproper(seq, w) ==
  IF seq = <<>> THEN <<>>
  ELSE (IF IsImproper(seq[1])
        THEN <<Interval(seq[1][1], AllOnes(w)), Interval(0, seq[1][2])>>
        ELSE <<seq[1]>>) \o SplitImproper(Tail(seq), w)

\* Step 3 of Normalize: one sweep merging overlapping or abutting intervals.
RECURSIVE MergeSweep(_, _)
MergeSweep(cur, rest) ==
  IF rest = <<>> THEN <<cur>>
  ELSE IF rest[1][1] <= cur[2] + 1
       THEN MergeSweep(IntervalConvexHull(cur, rest[1]), Tail(rest))
       ELSE <<cur>> \o MergeSweep(rest[1], Tail(rest))

Normalize(s) ==
  LET sorted == SortIntervals(SplitImproper(s.intervals, s.bit_count))
  IN  IntervalSet(s.bit_count,
                  IF sorted = <<>> THEN <<>> ELSE MergeSweep(sorted[1], Tail(sorted)))

\* Sorted, proper, in range, neither overlapping nor abutting.
IsNormalized(s) ==
  /\ \A n \in 1 .. Len(s.intervals) :
        /\ s.intervals[n][1] <= s.intervals[n][2]
        /\ s.intervals[n][1] \in BitsOf(s.bit_count)
        /\ s.intervals[n][2] \in BitsOf(s.bit_count)
  /\ \A n \in 1 .. Len(s.intervals) - 1 :
        s.intervals[n][2] + 1 < s.intervals[n + 1][1]

\* Smallest interval enclosing a non-empty set: from the least lower bound
\* to the greatest upper bound of its intervals.
ConvexHull(s) ==
  LET n == 1 .. Len(s.intervals)
  IN  Interval(s.intervals[CHOOSE i \in n :
                             \A j \in n : s.intervals[i][1] <= s.intervals[j][1]][1],
               s.intervals[CHOOSE i \in n :
                             \A j \in n : s.intervals[i][2] >= s.intervals[j][2]][2])

SetLowerBound(s) == s.intervals[1][1]

SetUpperBound(s) == s.intervals[Len(s.intervals)][2]

Combine(s, t) == Normalize(IntervalSet(s.bit_count, s.intervals \o t.intervals))

\* The normalized set denoting a set of values: maximal runs, ascending.
RECURSIVE RunsFrom(_, _, _)
RunsFrom(vals, x, w) ==
  LET rest == {v \in vals : v >= x}
  IN  IF rest = {} THEN <<>>
      ELSE LET start == CHOOSE v \in rest : \A u \in rest : v <= u
               end   == CHOOSE e \in rest :
                          /\ \A y \in start .. e : y \in vals
                          /\ (e + 1) \notin vals
           IN  <<Interval(start, end)>> \o RunsFrom(vals, end + 1, w)

FromValues(vals, w) == IntervalSet(w, RunsFrom(vals, 0, w))

Intersect(s, t) == FromValues(Values(s) \cap Values(t), s.bit_count)

Disjoint(s, t) == Values(s) \cap Values(t) = {}

\* ------------------------------------------------------------------ MinimizeIntervals
\* The comparison with the order of the gaps reversed.
MergeIntervalLargestGapFirst(l, r) ==
  \/ l.gap_with_previous > r.gap_with_previous
  \/ /\ l.gap_with_previous = r.gap_with_previous
     /\ LowerBound(l.final_interval) < LowerBound(r.final_interval)

\* The comparison that breaks ties in favour of the later gap.
MergeIntervalLaterGapFirst(l, r) ==
  \/ l.gap_with_previous < r.gap_with_previous
  \/ /\ l.gap_with_previous = r.gap_with_previous
     /\ LowerBound(l.final_interval) > LowerBound(r.final_interval)

\* MergeInterval::operator<=> as "less than": by gap, then by lower bound.
MergeIntervalLess(l, r) ==
  \/ l.gap_with_previous < r.gap_with_previous
  \/ /\ l.gap_with_previous = r.gap_with_previous
     /\ LowerBound(l.final_interval) < LowerBound(r.final_interval)

\* The intrusive list built over a normalized set: node i holds interval i,
\* the distance to the interval before it and the list links (0 is nullptr).
\* Node 1 is `first`; it is never on the heap.
BuildMergeList(s) ==
  [i \in 1 .. Len(s.intervals) |->
     [final_interval    |-> s.intervals[i],
      gap_with_previous |-> IF i = 1 THEN 0
                            ELSE bits_Sub(LowerBound(s.intervals[i]),
                                          UpperBound(s.intervals[i - 1]),
                                          s.bit_count),
      prev              |-> i - 1,
      next              |-> IF i = Len(s.intervals) THEN 0 ELSE i + 1]]

\* pop_min_element: the heap's root under heap_cmp.
PopMinElement(nodes, heap) ==
  CHOOSE m \in heap :
    \A o \in heap \ {m} : MergeIntervalLess(nodes[m], nodes[o])

\* The loop body that unlinks m without extending the previous interval.
MergeWithPreviousDroppingInterval(nodes, m) ==
  LET p  == nodes[m].prev
      nx == nodes[m].next
      unlinked == [nodes EXCEPT ![p].next = nx]
  IN  IF nx # 0 THEN [unlinked EXCEPT ![nx].prev = p] ELSE unlinked

\* Body of the merge loop for the popped node m: extend the previous interval
\* and unlink m from the list.
MergeWithPrevious(nodes, m) ==
  LET p  == nodes[m].prev
      nx == nodes[m].next
      extended == [nodes EXCEPT
                     ![p].final_interval =
                        Interval(LowerBound(nodes[p].final_interval),
                                 UpperBound(nodes[m].final_interval)),
                     ![p].next = nx]
  IN  IF nx # 0 THEN [extended EXCEPT ![nx].prev = p] ELSE extended

\* The merge loop stopping one merge early.
RECURSIVE MergeLoopStoppingEarly(_, _, _)
MergeLoopStoppingEarly(nodes, heap, size) ==
  IF size - 1 >= 0 /\ Cardinality(heap) > size
  THEN LET m == PopMinElement(nodes, heap)
       IN  MergeLoopStoppingEarly(MergeWithPrevious(nodes, m), heap \ {m}, size)
  ELSE [nodes |-> nodes, heap |-> heap]

\* while (merge_list.size() > size - 1) { pop; merge; }: the comparison is
\* unsigned, so a negative size - 1 stands for a value above every heap size
\* and the loop does not run.
RECURSIVE MergeLoop(_, _, _)
MergeLoop(nodes, heap, size) ==
  IF size - 1 >= 0 /\ Cardinality(heap) > size - 1
  THEN LET m == PopMinElement(nodes, heap)
       IN  MergeLoop(MergeWithPrevious(nodes, m), heap \ {m}, size)
  ELSE [nodes |-> nodes, heap |-> heap]

\* The final intervals of the nodes left on the heap, by node number.
RECURSIVE HeapIntervals(_, _, _)
HeapIntervals(nodes, heap, i) ==
  IF i > Len(nodes) THEN <<>>
  ELSE (IF i \in heap THEN <<nodes[i].final_interval>> ELSE <<>>)
       \o HeapIntervals(nodes, heap, i + 1)

\* A negative size is below every count, and reserve() of it throws
\* std::length_error; a size of zero leaves the merge loop idle.
MinimizeIntervals(interval_set, size) ==
  LET s == Normalize(interval_set)
  IN  IF NumberOfIntervals(s) <= size THEN s
      ELSE IF size < 0 THEN Fatal
      ELSE IF size = 1
           THEN Normalize(IntervalSet(s.bit_count, <<ConvexHull(s)>>))
           ELSE LET nodes == BuildMergeList(s)
                    done  == MergeLoop(nodes, 2 .. Len(nodes), size)
                IN  Normalize(IntervalSet(s.bit_count,
                                          <<done.nodes[1].final_interval>>
                                          \o HeapIntervals(done.nodes, done.heap, 2)))

\* ------------------------------------------------------------------ harness
Monotone == "Monotone"

Antitone == "Antitone"

OverflowResult(r, first, second) ==
  [result |-> r, first_overflow_bit |-> first, second_overflow_bit |-> second]

\* Add's calc that drops the carry.
AddCalcWithoutCarry(lhs, lhs_bit_count, rhs, rhs_bit_count) ==
  LET w == IF lhs_bit_count > rhs_bit_count THEN lhs_bit_count ELSE rhs_bit_count
  IN  OverflowResult(bits_Add(lhs, rhs, w), FALSE, FALSE)

\* Add's calc: add in one bit more than the wider operand has, the carry is
\* the overflow.
AddCalc(lhs, lhs_bit_count, rhs, rhs_bit_count) ==
  LET padded_size   == (IF lhs_bit_count > rhs_bit_count THEN lhs_bit_count
                        ELSE rhs_bit_count) + 1
      padded_result == bits_Add(bits_ZeroExtend(lhs, lhs_bit_count, padded_size),
                                bits_ZeroExtend(rhs, rhs_bit_count, padded_size),
                                padded_size)
  IN  OverflowResult(bits_Truncate(padded_result, padded_size - 1),
                     GetFromMsb(padded_result, padded_size, 0) = 1, FALSE)

\* Sub's calc that never reports an overflow.
SubCalcWithoutOverflow(lhs, rhs, w) == OverflowResult(bits_Sub(lhs, rhs, w), FALSE, FALSE)

\* Sub's calc: x - y overflows if x < y.
SubCalc(lhs, rhs, w) == OverflowResult(bits_Sub(lhs, rhs, w), lhs < rhs, FALSE)

\* UMul's calc reporting the overflow one bit early.
UMulCalcEarlyOverflow(lhs, rhs, output_bitwidth) ==
  LET product     == bits_UMul(lhs, rhs)
      msb_set_bit == BitLength(product) - 1
  IN  OverflowResult(product % Pow2(output_bitwidth),
                     msb_set_bit >= output_bitwidth - 1,
                     msb_set_bit >= output_bitwidth)

\* UMul's calc: the full product, cut or padded to output_bitwidth.
UMulCalc(lhs, rhs, output_bitwidth) ==
  LET product     == bits_UMul(lhs, rhs)
      msb_set_bit == BitLength(product) - 1
  IN  OverflowResult(product % Pow2(output_bitwidth),
                     msb_set_bit >= output_bitwidth,
                     msb_set_bit >= output_bitwidth + 1)

\* Concatenation of bits[i..], most significant operand first.
RECURSIVE ConcatFrom(_, _, _)
ConcatFrom(bits, widths, i) ==
  IF i > Len(bits) THEN [v |-> 0, w |-> 0]
  ELSE LET rest == ConcatFrom(bits, widths, i + 1)
       IN  [v |-> bits_Concat2(bits[i], rest.v, rest.w), w |-> widths[i] + rest.w]

bits_Concat(bits, widths) == ConcatFrom(bits, widths, 1).v

\* The calc callback of PerformVariadicOp applied to one corner: calc.fn names
\* the operation, calc.widths the operands' widths, calc.out the captured width.
Invoke(calc, bits) ==
  CASE calc.fn = "Add"  ->
         AddCalc(bits[1], calc.widths[1], bits[2], calc.widths[2])
    [] calc.fn = "Sub"  -> SubCalc(bits[1], bits[2], calc.widths[1])
    [] calc.fn = "UMul" -> UMulCalc(bits[1], bits[2], calc.out)
    [] calc.fn = "UDiv" ->
         OverflowResult(bits_UDiv(bits[1], bits[2], calc.widths[1]), FALSE, FALSE)
    [] calc.fn = "Neg"  ->
         OverflowResult(bits_Negate(bits[1], calc.widths[1]), FALSE, FALSE)
    [] calc.fn = "SignExtend" ->
         OverflowResult(bits_SignExtend(bits[1], calc.widths[1], calc.out), FALSE, FALSE)
    [] calc.fn = "ZeroExtend" ->
         OverflowResult(bits_ZeroExtend(bits[1], calc.widths[1], calc.out), FALSE, FALSE)
    [] calc.fn = "Concat" ->
         OverflowResult(bits_Concat(bits, calc.widths), FALSE, FALSE)

Calc(fn, sets, out) ==
  [fn |-> fn, widths |-> [i \in 1 .. Len(sets) |-> sets[i].bit_count], out |-> out]

\* Width of the Bits the callback returns: the wider operand for Add, the
\* first operand for Sub, UDiv and Neg, the captured width for UMul and the
\* extensions, the sum of the widths for Concat.
RECURSIVE SumOfWidths(_, _)
SumOfWidths(widths, i) ==
  IF i > Len(widths) THEN 0 ELSE widths[i] + SumOfWidths(widths, i + 1)

CalcBitCount(calc) ==
  CASE calc.fn = "Add" ->
         IF calc.widths[1] > calc.widths[2] THEN calc.widths[1] ELSE calc.widths[2]
    [] calc.fn \in {"Sub", "UDiv", "Neg"} -> calc.widths[1]
    [] calc.fn \in {"UMul", "SignExtend", "ZeroExtend"} -> calc.out
    [] calc.fn = "Concat" -> SumOfWidths(calc.widths, 1)

\* Number of index vectors MixedRadixIterate visits.
RECURSIVE RadixProduct(_, _)
RadixProduct(radix, n) == IF n = 0 THEN 1 ELSE radix[n] * RadixProduct(radix, n - 1)

\* The k-th index vector (k from 0); digit 1 is the least significant.
MixedRadixIndexes(radix, k) ==
  [i \in 1 .. Len(radix) |-> (k \div RadixProduct(radix, i - 1)) % radix[i]]

\* The classification that takes two corners overflowing once as an interval
\* that has not wrapped.
ClassifyCornersBothOverflowProper(lower, upper, result_bit_size) ==
  IF lower.first_overflow_bit = upper.first_overflow_bit
     /\ ~lower.second_overflow_bit /\ ~upper.second_overflow_bit
  THEN [add |-> <<Interval(lower.result, upper.result)>>, stop |-> FALSE,
        fatal |-> FALSE]
  ELSE IF \/ lower.second_overflow_bit
          \/ upper.second_overflow_bit
          \/ upper.result > lower.result
       THEN [add |-> <<IntervalMaximal(result_bit_size)>>, stop |-> TRUE,
             fatal |-> FALSE]
       ELSE [add |-> <<Interval(lower.result, AllOnes(result_bit_size)),
                       Interval(0, upper.result)>>,
             stop |-> FALSE, fatal |-> FALSE]

\* What the callback adds for the corner results, and whether it returns true
\* (stop the enumeration); fatal tells that a CHECK stopped it, which does
\* not happen while the corner results have the width of the result set.
ClassifyCorners(lower, upper, result_bit_size) ==
  IF ~lower.first_overflow_bit /\ ~upper.first_overflow_bit
  THEN [add |-> <<Interval(lower.result, upper.result)>>, stop |-> FALSE,
        fatal |-> FALSE]
  ELSE IF \/ (lower.first_overflow_bit /\ upper.first_overflow_bit)
          \/ lower.second_overflow_bit
          \/ upper.second_overflow_bit
          \/ upper.result > lower.result
       THEN [add |-> <<IntervalMaximal(result_bit_size)>>, stop |-> TRUE,
             fatal |-> FALSE]
       ELSE [add |-> <<Interval(lower.result, AllOnes(result_bit_size)),
                       Interval(0, upper.result)>>,
             stop |-> FALSE, fatal |-> FALSE]

\* An interval made of the corner results has the width the callback returns;
\* AddInterval CHECKs it against the width of the result set (fatal).
\* Interval::Maximal(result_bit_size) always has that width.
AddIntervalChecked(visited, calc_bit_count, result_bit_size) ==
  IF calc_bit_count = result_bit_size \/ visited.stop THEN visited
  ELSE [add |-> <<>>, stop |-> TRUE, fatal |-> TRUE]

\* The callback body: pick the corner operands by tonicity and classify.
VisitIndexes(calc, tonicities, sets, indexes, result_bit_size) ==
  LET interval(i) == sets[i].intervals[indexes[i] + 1]
      lower_bounds == [i \in 1 .. Len(sets) |->
                         IF tonicities[i] = Monotone THEN LowerBound(interval(i))
                         ELSE UpperBound(interval(i))]
      upper_bounds == [i \in 1 .. Len(sets) |->
                         IF tonicities[i] = Monotone THEN UpperBound(interval(i))
                         ELSE LowerBound(interval(i))]
  IN  AddIntervalChecked(ClassifyCorners(Invoke(calc, lower_bounds),
                                         Invoke(calc, upper_bounds),
                                         result_bit_size),
                         CalcBitCount(calc), result_bit_size)

\* The intervals added after visiting the index vectors k .. total - 1, and
\* whether a visit stopped in a failed CHECK.
RECURSIVE IterateFrom(_, _, _, _, _, _, _)
IterateFrom(calc, tonicities, sets, radix, k, total, result_bit_size) ==
  IF k >= total THEN [add |-> <<>>, stop |-> FALSE, fatal |-> FALSE]
  ELSE LET v == VisitIndexes(calc, tonicities, sets,
                             MixedRadixIndexes(radix, k), result_bit_size)
       IN  IF v.stop THEN v
           ELSE [IterateFrom(calc, tonicities, sets, radix, k + 1, total,
                             result_bit_size) EXCEPT !.add = v.add \o @]

\* The end of PerformVariadicOp: nothing is returned when a visit stopped in
\* a failed CHECK, else the intervals added are normalized and minimized.
ResultIntervals(added, result_bit_size) ==
  IF added.fatal THEN Fatal
  ELSE MinimizeIntervals(Normalize(IntervalSet(result_bit_size, added.add)), 16)

\* PerformVariadicOp without the final MinimizeIntervals.
PerformVariadicOpUnminimized(calc, tonicities, input_operands, result_bit_size) ==
  IF Len(input_operands) # Len(tonicities) THEN Fatal
  ELSE
  LET sets  == [i \in 1 .. Len(input_operands) |->
                  MinimizeIntervals(input_operands[i], IF i - 1 < 12 THEN 5 ELSE 1)]
      radix == [i \in 1 .. Len(sets) |-> NumberOfIntervals(sets[i])]
      added == IterateFrom(calc, tonicities, sets, radix, 0,
                           RadixProduct(radix, Len(radix)), result_bit_size)
  IN  IF added.fatal THEN Fatal
      ELSE Normalize(IntervalSet(result_bit_size, added.add))

\* CHECK_EQ(input_operands.size(), tonicities.size()) comes first.
PerformVariadicOp(calc, tonicities, input_operands, result_bit_size) ==
  IF Len(input_operands) # Len(tonicities) THEN Fatal
  ELSE
  LET sets  == [i \in 1 .. Len(input_operands) |->
                  MinimizeIntervals(input_operands[i], IF i - 1 < 12 THEN 5 ELSE 1)]
      radix == [i \in 1 .. Len(sets) |-> NumberOfIntervals(sets[i])]
  IN  ResultIntervals(
        IterateFrom(calc, tonicities, sets, radix, 0,
                    RadixProduct(radix, Len(radix)), result_bit_size),
        result_bit_size)

\* ------------------------------------------------------------------ arithmetic
\* Add with its second operand taken as antitone.
AddSecondAntitone(a, b) ==
  PerformVariadicOp(Calc("Add", <<a, b>>, a.bit_count), <<Monotone, Antitone>>,
                    <<a, b>>, a.bit_count)

Add(a, b) ==
  PerformVariadicOp(Calc("Add", <<a, b>>, a.bit_count), <<Monotone, Monotone>>,
                    <<a, b>>, a.bit_count)

\* Sub with both operands taken as monotone.
SubBothMonotone(a, b) ==
  PerformVariadicOp(Calc("Sub", <<a, b>>, a.bit_count), <<Monotone, Monotone>>,
                    <<a, b>>, a.bit_count)

Sub(a, b) ==
  PerformVariadicOp(Calc("Sub", <<a, b>>, a.bit_count), <<Monotone, Antitone>>,
                    <<a, b>>, a.bit_count)

\* Neg taken as monotone.
NegMonotone(a) ==
  PerformVariadicOp(Calc("Neg", <<a>>, a.bit_count), <<Monotone>>, <<a>>, a.bit_count)

Neg(a) ==
  PerformVariadicOp(Calc("Neg", <<a>>, a.bit_count), <<Antitone>>, <<a>>, a.bit_count)

UMul(a, b, output_bitwidth) ==
  PerformVariadicOp(Calc("UMul", <<a, b>>, output_bitwidth), <<Monotone, Monotone>>,
                    <<a, b>>, output_bitwidth)

\* UDiv that forgets the value of a division by zero.
UDivWithoutZeroDivisor(a, b) ==
  IF ~CoversZero(b)
  THEN PerformVariadicOp(Calc("UDiv", <<a, b>>, a.bit_count), <<Monotone, Antitone>>,
                         <<a, b>>, a.bit_count)
  ELSE LET nonzero_divisor == Intersect(b, NonZero(b.bit_count))
       IN  IF ~IsEmpty(nonzero_divisor)
           THEN PerformVariadicOp(Calc("UDiv", <<a, nonzero_divisor>>, a.bit_count),
                                  <<Monotone, Antitone>>, <<a, nonzero_divisor>>,
                                  a.bit_count)
           ELSE EmptySet(a.bit_count)

\* UDiv that takes a divisor that is only zero as one.
UDivZeroAsOne(a, b) ==
  IF ~CoversZero(b)
  THEN PerformVariadicOp(Calc("UDiv", <<a, b>>, a.bit_count), <<Monotone, Antitone>>,
                         <<a, b>>, a.bit_count)
  ELSE LET nonzero_divisor == Intersect(b, NonZero(b.bit_count))
           results ==
             IF ~IsEmpty(nonzero_divisor)
             THEN PerformVariadicOp(Calc("UDiv", <<a, nonzero_divisor>>, a.bit_count),
                                    <<Monotone, Antitone>>, <<a, nonzero_divisor>>,
                                    a.bit_count)
             ELSE a
       IN  Normalize(AddInterval(results,
                                 Interval(AllOnes(a.bit_count), AllOnes(a.bit_count))))

UDiv(a, b) ==
  IF ~CoversZero(b)
  THEN PerformVariadicOp(Calc("UDiv", <<a, b>>, a.bit_count), <<Monotone, Antitone>>,
                         <<a, b>>, a.bit_count)
  ELSE LET nonzero_divisor == Intersect(b, NonZero(b.bit_count))
           results ==
             IF ~IsEmpty(nonzero_divisor)
             THEN PerformVariadicOp(Calc("UDiv", <<a, nonzero_divisor>>, a.bit_count),
                                    <<Monotone, Antitone>>, <<a, nonzero_divisor>>,
                                    a.bit_count)
             ELSE EmptySet(a.bit_count)
       IN  Normalize(AddInterval(results,
                                 Interval(AllOnes(a.bit_count), AllOnes(a.bit_count))))

SignExtend(a, width) ==
  PerformVariadicOp(Calc("SignExtend", <<a>>, width), <<Monotone>>, <<a>>, width)

ZeroExtend(a, width) ==
  PerformVariadicOp(Calc("ZeroExtend", <<a>>, width), <<Monotone>>, <<a>>, width)

\* The loop of Truncate with the span test at twice the output space.
RECURSIVE TruncateFromDoubleSpan(_, _, _)
TruncateFromDoubleSpan(a, width, n) ==
  IF n > Len(a.intervals) THEN [maximal |-> FALSE, added |-> <<>>]
  ELSE LET i == a.intervals[n]
       IN  IF bits_Sub(UpperBound(i), LowerBound(i), a.bit_count) > 2 * AllOnes(width) + 1
           THEN [maximal |-> TRUE, added |-> <<>>]
           ELSE LET rest == TruncateFromDoubleSpan(a, width, n + 1)
                IN  [maximal |-> rest.maximal,
                     added   |-> <<Interval(bits_Slice(LowerBound(i), 0, width),
                                            bits_Slice(UpperBound(i), 0, width))>>
                                 \o rest.added]

RECURSIVE TruncateFrom(_, _, _)
TruncateFrom(a, width, n) ==
  IF n > Len(a.intervals) THEN [maximal |-> FALSE, added |-> <<>>]
  ELSE LET i == a.intervals[n]
       IN  IF bits_Sub(UpperBound(i), LowerBound(i), a.bit_count) > AllOnes(width)
           THEN [maximal |-> TRUE, added |-> <<>>]
           ELSE LET rest == TruncateFrom(a, width, n + 1)
                IN  [maximal |-> rest.maximal,
                     added   |-> <<Interval(bits_Slice(LowerBound(i), 0, width),
                                            bits_Slice(UpperBound(i), 0, width))>>
                                 \o rest.added]

\* Truncate without the test for an interval spanning the whole output space.
TruncateWithoutSpanCheck(a, width) ==
  Normalize(IntervalSet(width,
    [n \in 1 .. Len(a.intervals) |->
       Interval(bits_Slice(LowerBound(a.intervals[n]), 0, width),
                bits_Slice(UpperBound(a.intervals[n]), 0, width))]))

Truncate(a, width) ==
  LET r == TruncateFrom(a, width, 1)
  IN  IF r.maximal THEN Maximal(width)
      ELSE Normalize(IntervalSet(width, r.added))

RECURSIVE SumBitCounts(_, _)
SumBitCounts(sets, n) ==
  IF n = 0 THEN 0 ELSE sets[n].bit_count + SumBitCounts(sets, n - 1)

Concat(sets) ==
  PerformVariadicOp(Calc("Concat", sets, 0), [i \in 1 .. Len(sets) |-> Monotone],
                    sets, SumBitCounts(sets, Len(sets)))

\* ------------------------------------------------------------------ ternary
kKnownZero == "0"

kKnownOne == "1"

kUnknown == "X"

TernaryValues == {kKnownZero, kKnownOne, kUnknown}

IsKnown(t) == t # kUnknown

IsUnknown(t) == t = kUnknown

IsFullyKnown(tv) == \A i \in 1 .. Len(tv) : IsKnown(tv[i])

\* Value of the known bits, unknown bits read as 0; tv[1] is bit 0.
RECURSIVE ToKnownBitsValues(_)
ToKnownBitsValues(tv) ==
  IF tv = <<>> THEN 0
  ELSE (IF tv[1] = kKnownOne THEN 1 ELSE 0) + 2 * ToKnownBitsValues(Tail(tv))

\* x (of Len(tv) bits) agrees with tv on every known bit.
Consistent(tv, x) ==
  \A i \in 1 .. Len(tv) :
    IsKnown(tv[i]) => GetBit(x, i - 1) = (IF tv[i] = kKnownOne THEN 1 ELSE 0)

\* Every concrete filling of the unknown bits, ascending.
RECURSIVE AscendingFrom(_, _, _)
AscendingFrom(vals, x, max) ==
  LET rest == {v \in vals : v >= x /\ v <= max}
  IN  IF rest = {} THEN <<>>
      ELSE LET least == CHOOSE v \in rest : \A u \in rest : v <= u
           IN  <<least>> \o AscendingFrom(vals, least + 1, max)

AllBitsValues(tv) ==
  AscendingFrom({x \in BitsOf(Len(tv)) : Consistent(tv, x)}, 0, AllOnes(Len(tv)))

\* A bit stays known only where both vectors know it and agree.
UpdateWithIntersection(lhs, rhs) ==
  [i \in 1 .. Len(lhs) |-> IF lhs[i] # rhs[i] THEN kUnknown ELSE lhs[i]]

\* TernaryEvaluator on single values.
TernaryNot(a) ==
  IF a = kKnownZero THEN kKnownOne ELSE IF a = kKnownOne THEN kKnownZero ELSE kUnknown

TernaryAnd(a, b) ==
  IF a = kKnownZero \/ b = kKnownZero THEN kKnownZero
  ELSE IF a = kKnownOne /\ b = kKnownOne THEN kKnownOne
  ELSE kUnknown

TernaryOr(a, b) ==
  IF a = kKnownOne \/ b = kKnownOne THEN kKnownOne
  ELSE IF a = kKnownZero /\ b = kKnownZero THEN kKnownZero
  ELSE kUnknown

TernaryXor(a, b) ==
  IF IsUnknown(a) \/ IsUnknown(b) THEN kUnknown
  ELSE IF a = b THEN kKnownZero ELSE kKnownOne

BitwiseNot(a) == [i \in 1 .. Len(a) |-> TernaryNot(a[i])]

BitwiseAnd(a, b) == [i \in 1 .. Len(a) |-> TernaryAnd(a[i], b[i])]

BitwiseOr(a, b) == [i \in 1 .. Len(a) |-> TernaryOr(a[i], b[i])]

BitwiseXor(a, b) == [i \in 1 .. Len(a) |-> TernaryXor(a[i], b[i])]

\* Length of the longest common most-significant prefix of two w-bit values.
RECURSIVE CommonPrefixLength(_, _, _)
CommonPrefixLength(x, y, w) ==
  IF w = 0 \/ GetBit(x, w - 1) # GetBit(y, w - 1) THEN 0
  ELSE 1 + CommonPrefixLength(x, y, w - 1)

\* ------------------------------------------------------------------ bridge
\* ExtractTernaryInterval that leaves the last bit of the common prefix unknown.
ExtractTernaryIntervalShortPrefix(interval, size) ==
  LET lcp_bit_count == CommonPrefixLength(LowerBound(interval), UpperBound(interval), size)
  IN  [i \in 1 .. size |->
         IF i - 1 > size - lcp_bit_count
         THEN (IF GetBit(LowerBound(interval), i - 1) = 1 THEN kKnownOne ELSE kKnownZero)
         ELSE kUnknown]

ExtractTernaryInterval(interval, size) ==
  LET lcp_bit_count == CommonPrefixLength(LowerBound(interval), UpperBound(interval), size)
  IN  [i \in 1 .. size |->
         IF i - 1 >= size - lcp_bit_count
         THEN (IF GetBit(LowerBound(interval), i - 1) = 1 THEN kKnownOne ELSE kKnownZero)
         ELSE kUnknown]

RECURSIVE ExtractTernaryFold(_, _, _)
ExtractTernaryFold(res, intervals, n) ==
  IF n > Len(intervals.intervals) THEN res
  ELSE ExtractTernaryFold(
         UpdateWithIntersection(
           res, ExtractTernaryInterval(intervals.intervals[n], intervals.bit_count)),
         intervals, n + 1)

\* ExtractTernaryVector that looks at the first interval only.
ExtractTernaryFirstIntervalOnly(intervals) ==
  ExtractTernaryInterval(intervals.intervals[1], intervals.bit_count)

\* Precondition (CHECKed): intervals is normalized and not empty.
\* The two CHECKs of ExtractTernaryVector: a normalized set with an interval.
ExtractTernaryVectorChecks(intervals) ==
  IsNormalized(intervals) /\ ~IsEmpty(intervals)

ExtractTernaryVector(intervals) ==
  ExtractTernaryFold(ExtractTernaryInterval(intervals.intervals[1], intervals.bit_count),
                     intervals, 2)

\* 0-based position of the lowest known bit; Len(tv) if there is none.
FirstKnown(tv) ==
  IF \E i \in 1 .. Len(tv) : IsKnown(tv[i])
  THEN (CHOOSE i \in 1 .. Len(tv) :
          IsKnown(tv[i]) /\ \A j \in 1 .. i - 1 : IsUnknown(tv[j])) - 1
  ELSE Len(tv)

\* The scan that never pops the front of the deque.
RECURSIVE XLocationsKeepingAll(_, _, _, _)
XLocationsKeepingAll(tv, pos, x_locations, max_interval_bits) ==
  IF pos >= Len(tv) THEN x_locations
  ELSE XLocationsKeepingAll(tv, pos + 1,
                            IF IsUnknown(tv[pos + 1]) THEN Append(x_locations, pos)
                            ELSE x_locations,
                            max_interval_bits)

\* The deque of FromTernary after scanning positions pos .. Len(tv) - 1: the
\* positions of unknown bits, only the last max_interval_bits + 1 kept.
RECURSIVE XLocations(_, _, _, _)
XLocations(tv, pos, x_locations, max_interval_bits) ==
  IF pos >= Len(tv) THEN x_locations
  ELSE IF IsUnknown(tv[pos + 1])
       THEN LET pushed == Append(x_locations, pos)
            IN  XLocations(tv, pos + 1,
                           IF Len(pushed) > max_interval_bits + 1
                           THEN Tail(pushed) ELSE pushed,
                           max_interval_bits)
       ELSE XLocations(tv, pos + 1, x_locations, max_interval_bits)

\* One interval per element of values: [v:0..0, v:1..1] with lsb_xs low bits.
\* The groups with their low bits left at zero.
GroupIntervalsOfLowerBounds(values, lsb_xs) ==
  [n \in 1 .. Len(values) |->
     Interval(bits_Concat2(values[n], 0, lsb_xs),
              bits_Concat2(values[n], 0, lsb_xs))]

GroupIntervals(values, lsb_xs) ==
  [n \in 1 .. Len(values) |->
     Interval(bits_Concat2(values[n], 0, lsb_xs),
              bits_Concat2(values[n], AllOnes(lsb_xs), lsb_xs))]

\* FromTernary that never extends the low run of unknown bits.
FromTernaryWithoutExtension(tv, max_interval_bits) ==
  IF IsFullyKnown(tv) THEN Precise(ToKnownBitsValues(tv), Len(tv))
  ELSE LET lsb_xs == FirstKnown(tv)
           high   == SubSeq(tv, lsb_xs + 1, Len(tv))
       IN  Normalize(IntervalSet(Len(tv), GroupIntervals(AllBitsValues(high), lsb_xs)))

\* Precondition (CHECKed): max_interval_bits >= 0.
FromTernary(tv, max_interval_bits) ==
  IF max_interval_bits < 0 THEN Fatal
  ELSE IF IsFullyKnown(tv) THEN Precise(ToKnownBitsValues(tv), Len(tv))
  ELSE LET lsb_xs0 == FirstKnown(tv)
           scanned == XLocations(tv, lsb_xs0, <<>>, max_interval_bits)
           extend  == Len(scanned) > max_interval_bits
           lsb_xs  == IF extend THEN scanned[1] + 1 ELSE lsb_xs0
           x_locations == IF extend THEN Tail(scanned) ELSE scanned
           high    == SubSeq(tv, lsb_xs + 1, Len(tv))
       IN  IF x_locations = <<>>
           THEN Normalize(IntervalSet(Len(tv),
                  GroupIntervals(<<ToKnownBitsValues(high)>>, lsb_xs)))
           ELSE Normalize(IntervalSet(Len(tv),
                  GroupIntervals(AllBitsValues(high), lsb_xs)))

\* CHECK_EQ(is.BitCount(), 1) comes first.
OneBitRangeToTernary(is) ==
  IF is.bit_count # 1 THEN Fatal
  ELSE IF IsPrecise(is) THEN (IF CoversZero(is) THEN kKnownZero ELSE kKnownOne)
  ELSE kUnknown

TernaryToOneBitRange(v) ==
  CASE v = kKnownZero -> Precise(0, 1)
    [] v = kKnownOne  -> Precise(1, 1)
    [] v = kUnknown   -> Maximal(1)

\* ------------------------------------------------------------------ bitwise
\* Default of FromTernary's max_interval_bits parameter (declared in
\* interval_ops.h).
kDefaultMaxIntervalBits == 4

Not(a) ==
  IF a.bit_count = 1 THEN TernaryToOneBitRange(TernaryNot(OneBitRangeToTernary(a)))
  ELSE IF ~ExtractTernaryVectorChecks(a) THEN Fatal
  ELSE FromTernary(BitwiseNot(ExtractTernaryVector(a)), kDefaultMaxIntervalBits)

And(a, b) ==
  IF a.bit_count # b.bit_count THEN Fatal
  ELSE IF a.bit_count = 1
  THEN TernaryToOneBitRange(TernaryAnd(OneBitRangeToTernary(a), OneBitRangeToTernary(b)))
  ELSE IF ~ExtractTernaryVectorChecks(a) \/ ~ExtractTernaryVectorChecks(b) THEN Fatal
  ELSE FromTernary(BitwiseAnd(ExtractTernaryVector(a), ExtractTernaryVector(b)),
                   kDefaultMaxIntervalBits)

Or(a, b) ==
  IF a.bit_count # b.bit_count THEN Fatal
  ELSE IF a.bit_count = 1
  THEN TernaryToOneBitRange(TernaryOr(OneBitRangeToTernary(a), OneBitRangeToTernary(b)))
  ELSE IF ~ExtractTernaryVectorChecks(a) \/ ~ExtractTernaryVectorChecks(b) THEN Fatal
  ELSE FromTernary(BitwiseOr(ExtractTernaryVector(a), ExtractTernaryVector(b)),
                   kDefaultMaxIntervalBits)

\* Xor whose vector path evaluates Or.
XorAsOr(a, b) ==
  IF a.bit_count = 1
  THEN TernaryToOneBitRange(TernaryXor(OneBitRangeToTernary(a), OneBitRangeToTernary(b)))
  ELSE FromTernary(BitwiseOr(ExtractTernaryVector(a), ExtractTernaryVector(b)),
                   kDefaultMaxIntervalBits)

Xor(a, b) ==
  IF a.bit_count # b.bit_count THEN Fatal
  ELSE IF a.bit_count = 1
  THEN TernaryToOneBitRange(TernaryXor(OneBitRangeToTernary(a), OneBitRangeToTernary(b)))
  ELSE IF ~ExtractTernaryVectorChecks(a) \/ ~ExtractTernaryVectorChecks(b) THEN Fatal
  ELSE FromTernary(BitwiseXor(ExtractTernaryVector(a), ExtractTernaryVector(b)),
                   kDefaultMaxIntervalBits)

\* ------------------------------------------------------------------ comparisons
Eq(a, b) ==
  IF IsPrecise(a) /\ IsPrecise(b)
  THEN TernaryToOneBitRange(IF GetPreciseValue(a) = GetPreciseValue(b)
                            THEN kKnownOne ELSE kKnownZero)
  ELSE TernaryToOneBitRange(IF Disjoint(a, b) THEN kKnownZero ELSE kUnknown)

Ne(a, b) == Not(Eq(a, b))

\* ULt deciding on the sets instead of their hulls.
ULtOnSets(a, b) ==
  IF Disjoint(a, b)
  THEN TernaryToOneBitRange(IF IntervalLess(ConvexHull(a), ConvexHull(b))
                            THEN kKnownOne ELSE kKnownZero)
  ELSE TernaryToOneBitRange(kUnknown)

ULt(a, b) ==
  LET lhs_hull == ConvexHull(a)
      rhs_hull == ConvexHull(b)
  IN  IF IntervalDisjoint(lhs_hull, rhs_hull)
      THEN TernaryToOneBitRange(IF IntervalLess(lhs_hull, rhs_hull)
                                THEN kKnownOne ELSE kKnownZero)
      ELSE TernaryToOneBitRange(kUnknown)

UGt(a, b) ==
  LET lhs_hull == ConvexHull(a)
      rhs_hull == ConvexHull(b)
  IN  IF IntervalDisjoint(lhs_hull, rhs_hull)
      THEN TernaryToOneBitRange(IF IntervalLess(rhs_hull, lhs_hull)
                                THEN kKnownOne ELSE kKnownZero)
      ELSE TernaryToOneBitRange(kUnknown)

is_all_negative(v) ==
  /\ GetFromMsb(SetLowerBound(v), v.bit_count, 0) = 1
  /\ GetFromMsb(SetUpperBound(v), v.bit_count, 0) = 1

is_all_positive(v) ==
  /\ GetFromMsb(SetLowerBound(v), v.bit_count, 0) = 0
  /\ GetFromMsb(SetUpperBound(v), v.bit_count, 0) = 0

\* Precise(Concat({UBits(1, 1), Bits(bit_count - 1)})): the sign bit alone.
\* A signed bias of zero.
SignedOffsetZero(a) == Precise(0, a.bit_count)

SignedOffset(a) == Precise(bits_Concat2(1, 0, a.bit_count - 1), a.bit_count)

\* The unsigned comparison of the biased operands, which is not reached when
\* an Add stopped in a failed CHECK.
CompareBiased(f, lhs, rhs) ==
  IF lhs = Fatal \/ rhs = Fatal THEN Fatal
  ELSE IF f = "ULt" THEN ULt(lhs, rhs) ELSE UGt(lhs, rhs)

\* SLt that always compares unsigned.
SLtUnsigned(a, b) == ULt(a, b)

SLt(a, b) ==
  IF ~IsNormalized(a) \/ ~IsNormalized(b) THEN Fatal
  ELSE IF \/ (is_all_positive(a) /\ is_all_positive(b))
          \/ (is_all_negative(a) /\ is_all_negative(b))
  THEN ULt(a, b)
  ELSE CompareBiased("ULt", Add(a, SignedOffset(a)), Add(b, SignedOffset(a)))

SGt(a, b) ==
  IF ~IsNormalized(a) \/ ~IsNormalized(b) THEN Fatal
  ELSE IF \/ (is_all_positive(a) /\ is_all_positive(b))
          \/ (is_all_negative(a) /\ is_all_negative(b))
  THEN UGt(a, b)
  ELSE CompareBiased("UGt", Add(a, SignedOffset(a)), Add(b, SignedOffset(a)))

\* ------------------------------------------------------------------ reductions
\* Parity of the number of set bits of x.
RECURSIVE bits_XorReduce(_)
bits_XorReduce(x) == IF x = 0 THEN 0 ELSE ((x % 2) + bits_XorReduce(x \div 2)) % 2

\* AndReduce that reports every set covering the largest value as all ones.
AndReduceIgnoringPrecision(a) ==
  IF ~CoversMax(a) THEN TernaryToOneBitRange(kKnownZero)
  ELSE TernaryToOneBitRange(kKnownOne)

AndReduce(a) ==
  IF ~CoversMax(a) THEN TernaryToOneBitRange(kKnownZero)
  ELSE IF IsPrecise(a) THEN TernaryToOneBitRange(kKnownOne)
  ELSE TernaryToOneBitRange(kUnknown)

OrReduce(a) ==
  IF ~CoversZero(a) THEN TernaryToOneBitRange(kKnownOne)
  ELSE IF IsPrecise(a) THEN TernaryToOneBitRange(kKnownZero)
  ELSE TernaryToOneBitRange(kUnknown)

\* XorReduce that looks at the first interval only.
XorReduceFirstIntervalOnly(a) ==
  IF NumberOfIntervals(a) = 0 \/ ~IntervalIsPrecise(a.intervals[1])
  THEN TernaryToOneBitRange(kUnknown)
  ELSE TernaryToOneBitRange(IF bits_XorReduce(LowerBound(a.intervals[1])) = 1
                            THEN kKnownOne ELSE kKnownZero)

XorReduce(a) ==
  IF NumberOfIntervals(a) = 0 \/ ~IntervalIsPrecise(a.intervals[1])
  THEN TernaryToOneBitRange(kUnknown)
  ELSE LET output == bits_XorReduce(LowerBound(a.intervals[1]))
       IN  IF \E n \in 2 .. Len(a.intervals) :
                \/ ~IntervalIsPrecise(a.intervals[n])
                \/ bits_XorReduce(LowerBound(a.intervals[n])) # output
           THEN TernaryToOneBitRange(kUnknown)
           ELSE TernaryToOneBitRange(IF output = 1 THEN kKnownOne ELSE kKnownZero)

\* ------------------------------------------------------------------ gate and one hot
\* Gate that passes val through whenever cond is imprecise.
GateImpreciseAsOpen(cond, val) ==
  IF IsPrecise(cond)
  THEN (IF CoversZero(cond) THEN Precise(0, val.bit_count) ELSE val)
  ELSE val

Gate(cond, val) ==
  IF IsPrecise(cond)
  THEN (IF CoversZero(cond) THEN Precise(0, val.bit_count) ELSE val)
  ELSE IF CoversZero(cond) THEN Combine(val, Precise(0, val.bit_count))
  ELSE val

\* LsbOrMsb: the side that has priority.
kLsb == 0

kMsb == 1

\* Ternary conjunction of the negations of src[from .. to].
RECURSIVE NoneSet(_, _, _)
NoneSet(src, from, to) ==
  IF from > to THEN kKnownOne
  ELSE TernaryAnd(TernaryNot(src[from]), NoneSet(src, from + 1, to))

\* One hot with priority to the least significant bit: bit i is set when
\* src[i] is set and no lower bit is; the extra top bit when no bit is set.
OneHotLsbToMsb(src) ==
  [i \in 1 .. Len(src) + 1 |->
     IF i = Len(src) + 1 THEN NoneSet(src, 1, Len(src))
     ELSE TernaryAnd(src[i], NoneSet(src, 1, i - 1))]

\* One hot with priority to the most significant bit.
OneHotMsbToLsb(src) ==
  [i \in 1 .. Len(src) + 1 |->
     IF i = Len(src) + 1 THEN NoneSet(src, 1, Len(src))
     ELSE TernaryAnd(src[i], NoneSet(src, i + 1, Len(src)))]

OneHot(val, lsb_or_msb, max_interval_bits) ==
  IF ~ExtractTernaryVectorChecks(val) THEN Fatal
  ELSE LET src == ExtractTernaryVector(val)
           res == IF lsb_or_msb = kLsb THEN OneHotLsbToMsb(src)
                  ELSE OneHotMsbToLsb(src)
       IN  FromTernary(res, max_interval_bits)

\* ------------------------------------------------------------------ inputs
\* Interval sequences of exactly n proper intervals over w bits, ascending,
\* neither overlapping nor abutting, every lower bound at least from.
RECURSIVE NormalizedSeqs(_, _, _)
NormalizedSeqs(w, n, from) ==
  IF n = 0 THEN {<<>>}
  ELSE UNION {LET rests == NormalizedSeqs(w, n - 1, hi + 2)
              IN  {<<Interval(p[1], hi)>> \o p[2] : p \in (from .. hi) \X rests} :
                hi \in from .. AllOnes(w) - 2 * (n - 1)}

\* Normalized interval sets of width w with lo to hi intervals.
SetsWithIntervals(w, lo, hi) ==
  UNION {{IntervalSet(w, seq) : seq \in NormalizedSeqs(w, m, 0)} : m \in lo .. hi}

\* Normalized non-empty interval sets of width w with at most n intervals.
NormalizedSets(w, n) == SetsWithIntervals(w, 1, n)

\* Normalized sets of width w with as many intervals as fit.
DenseSets(w) == SetsWithIntervals(w, Pow2(w - 1), Pow2(w - 1))

PreciseSets(w) == {Precise(x, w) : x \in BitsOf(w)}

\* Single intervals that start at 0 or end at the largest value.
AnchoredSets(w) ==
  {IntervalSet(w, <<Interval(0, x)>>) : x \in BitsOf(w)}
  \cup {IntervalSet(w, <<Interval(x, AllOnes(w))>>) : x \in BitsOf(w)}

\* Sets of two values that are not neighbours.
TwoPointSets(w) ==
  {IntervalSet(w, <<Interval(p[1], p[1]), Interval(p[2], p[2])>>) :
     p \in {q \in BitsOf(w) \X BitsOf(w) : q[1] + 1 < q[2]}}

\* Any sequence of at most n intervals of width w: improper, overlapping and
\* unsorted ones included.
ArbitrarySets(w, n) ==
  UNION {{IntervalSet(w, seq) : seq \in [1 .. m -> BitsOf(w) \X BitsOf(w)]} :
           m \in 0 .. n}

NoSet == EmptySet(0)

Idle(ops) ==
  /\ op = "init"
  /\ operands \in ops
  /\ arg = <<>>
  /\ tern = <<>>
  /\ result = NoSet

\* Pairs of equal-width operands of the two-operand runs.
OperandPairs(max_width) ==
  UNION {NormalizedSets(w, MaxOperandIntervals) \X NormalizedSets(w, MaxOperandIntervals) :
           w \in 1 .. max_width}

\* Operands of the one-operand runs.
SingleOperands(max_width) ==
  UNION {{<<a>> : a \in NormalizedSets(w, MaxIntervals)} : w \in 1 .. max_width}

\* The set of the values 0, step, 2 * step, ... (n of them), each an interval.
SpreadSet(w, n, step) ==
  IntervalSet(w, [i \in 1 .. n |-> Interval((i - 1) * step, (i - 1) * step)])

\* Operand pairs of the worked scenarios: 5 + [3, 7], [10, 12] - [20, 25] and
\* 0xFF against 0x01 over 8 bits, [2, 3] * [2, 3] over 4 bits, a single
\* interval holding 2^3 and 2^3 + 1 values over 4 bits, and two sets of five
\* values over 6 bits whose 25 sums are all apart, and two sets of five
\* intervals over 7 bits with 16 quotients apart, the divisor covering zero.
ScenarioPairs ==
  {<<Precise(5, 8), IntervalSet(8, <<Interval(3, 7)>>)>>,
   <<IntervalSet(8, <<Interval(10, 12)>>), IntervalSet(8, <<Interval(20, 25)>>)>>,
   <<Precise(255, 8), Precise(1, 8)>>,
   <<Precise(1, 8), Precise(255, 8)>>,
   <<IntervalSet(4, <<Interval(2, 3)>>), IntervalSet(4, <<Interval(2, 3)>>)>>,
   <<SpreadSet(6, 5, 2), SpreadSet(6, 5, 10)>>,
   <<IntervalSet(7, <<Interval(32, 32), Interval(82, 82), Interval(90, 90),
                      Interval(102, 102), Interval(122, 122)>>),
     IntervalSet(7, <<Interval(0, 1), Interval(3, 3), Interval(6, 6),
                      Interval(23, 23), Interval(112, 112)>>)>>}

\* ------------------------------------------------------------------ arithmetic runs
InitArith ==
  Idle(OperandPairs(MaxWidth)
       \cup (DenseSets(WideWidth) \X NormalizedSets(WideWidth, 1))
       \cup SingleOperands(WideWidth)
       \cup ScenarioPairs)

DoAdd ==
  /\ op = "init" /\ Len(operands) = 2
  /\ op' = "Add"
  /\ result' = Add(operands[1], operands[2])
  /\ UNCHANGED <<operands, arg, tern>>

DoSub ==
  /\ op = "init" /\ Len(operands) = 2
  /\ op' = "Sub"
  /\ result' = Sub(operands[1], operands[2])
  /\ UNCHANGED <<operands, arg, tern>>

DoUMul ==
  /\ op = "init" /\ Len(operands) = 2
  /\ \E output_bitwidth \in 1 .. 2 * operands[1].bit_count :
       /\ op' = "UMul"
       /\ arg' = <<output_bitwidth>>
       /\ result' = UMul(operands[1], operands[2], output_bitwidth)
  /\ UNCHANGED <<operands, tern>>

DoUDiv ==
  /\ op = "init" /\ Len(operands) = 2
  /\ op' = "UDiv"
  /\ result' = UDiv(operands[1], operands[2])
  /\ UNCHANGED <<operands, arg, tern>>

DoNeg ==
  /\ op = "init" /\ Len(operands) = 1
  /\ op' = "Neg"
  /\ result' = Neg(operands[1])
  /\ UNCHANGED <<operands, arg, tern>>

NextArith == DoAdd \/ DoSub \/ DoUMul \/ DoUDiv \/ DoNeg

SpecArith == InitArith /\ [][NextArith]_vars

\* C1: Add, Sub and UMul are sound: the result covers the concrete result of
\* every pair of values drawn from the operands.
AddSubUMulSound ==
  op \in {"Add", "Sub", "UMul"} =>
    \A x \in Values(operands[1]) : \A y \in Values(operands[2]) :
      /\ op = "Add" => Covers(result, (x + y) % Pow2(operands[1].bit_count))
      /\ op = "Sub" => Covers(result, (x - y) % Pow2(operands[1].bit_count))
      /\ op = "UMul" => Covers(result, (x * y) % Pow2(arg[1]))

\* Add has wrapped for some pairs of values and not for others, and the
\* result is still not maximal.
AddSubUMulSoundWitness ==
  /\ op = "Add"
  /\ NumberOfIntervals(operands[1]) = 2
  /\ NumberOfIntervals(result) = 2
  /\ \E x \in Values(operands[1]) : \E y \in Values(operands[2]) :
       x + y >= Pow2(operands[1].bit_count)
  /\ \E x \in Values(operands[1]) : \E y \in Values(operands[2]) :
       x + y < Pow2(operands[1].bit_count)

\* C2: Neg is sound: the result covers the two's-complement negation of every
\* value of the operand.
NegSound ==
  op = "Neg" =>
    \A x \in Values(operands[1]) :
      Covers(result, (Pow2(operands[1].bit_count) - x) % Pow2(operands[1].bit_count))

\* Neg of a set whose first interval is [0, hi] with hi > 0: the antitone
\* corner pair is improper, and the result is not maximal.
NegSoundWitness ==
  /\ op = "Neg"
  /\ LowerBound(operands[1].intervals[1]) = 0
  /\ UpperBound(operands[1].intervals[1]) > 0
  /\ NumberOfIntervals(result) >= 2
  /\ Covers(result, 0)

\* C3: UDiv is sound, a division by zero giving all ones.
UDivSound ==
  op = "UDiv" =>
    \A x \in Values(operands[1]) : \A y \in Values(operands[2]) :
      Covers(result, IF y = 0 THEN AllOnes(operands[1].bit_count) ELSE x \div y)

\* The divisor covers zero and other values, and the all-ones value enters the
\* result only through the division by zero.
UDivSoundWitness ==
  /\ op = "UDiv"
  /\ CoversZero(operands[2])
  /\ ~IsPrecise(operands[2])
  /\ NumberOfIntervals(result) = 2
  /\ ~Covers(operands[1], AllOnes(operands[1].bit_count))

\* ------------------------------------------------------------------ bitwise runs
InitBitwise ==
  Idle(OperandPairs(MaxWidth)
       \cup (AnchoredSets(BitwiseWideWidth) \X PreciseSets(BitwiseWideWidth))
       \cup SingleOperands(WideWidth)
       \cup {<<a>> : a \in TwoPointSets(BitwiseWideWidth)})

DoNot ==
  /\ op = "init" /\ Len(operands) = 1
  /\ op' = "Not"
  /\ result' = Not(operands[1])
  /\ UNCHANGED <<operands, arg, tern>>

DoAnd ==
  /\ op = "init" /\ Len(operands) = 2
  /\ op' = "And"
  /\ result' = And(operands[1], operands[2])
  /\ UNCHANGED <<operands, arg, tern>>

DoOr ==
  /\ op = "init" /\ Len(operands) = 2
  /\ op' = "Or"
  /\ result' = Or(operands[1], operands[2])
  /\ UNCHANGED <<operands, arg, tern>>

DoXor ==
  /\ op = "init" /\ Len(operands) = 2
  /\ op' = "Xor"
  /\ result' = Xor(operands[1], operands[2])
  /\ UNCHANGED <<operands, arg, tern>>

NextBitwise == DoNot \/ DoAnd \/ DoOr \/ DoXor

SpecBitwise == InitBitwise /\ [][NextBitwise]_vars

\* The concrete bitwise operations on w-bit values.
RECURSIVE ConcreteBitwise(_, _, _, _)
ConcreteBitwise(f, x, y, w) ==
  IF w = 0 THEN 0
  ELSE LET bx == x % 2
           by == y % 2
           bit == CASE f = "And" -> bx * by
                    [] f = "Or"  -> IF bx + by > 0 THEN 1 ELSE 0
                    [] f = "Xor" -> (bx + by) % 2
       IN  bit + 2 * ConcreteBitwise(f, x \div 2, y \div 2, w - 1)

\* C4: Not, And, Or and Xor are sound on the 1-bit path and on the ternary
\* path with the default budget.
BitwiseSound ==
  /\ op = "Not" =>
       \A x \in Values(operands[1]) :
         Covers(result, AllOnes(operands[1].bit_count) - x)
  /\ op \in {"And", "Or", "Xor"} =>
       \A x \in Values(operands[1]) : \A y \in Values(operands[2]) :
         Covers(result, ConcreteBitwise(op, x, y, operands[1].bit_count))

\* An And whose ternary result has more unknown bits above its lowest known
\* bit than the default budget: the result also covers values with that bit set.
BitwiseSoundWitness ==
  /\ op = "And"
  /\ operands[1].bit_count > kDefaultMaxIntervalBits + 1
  /\ \A x \in Values(operands[1]) : \A y \in Values(operands[2]) :
       ConcreteBitwise("And", x, y, operands[1].bit_count) % 2 = 0
  /\ Covers(result, 1)
  /\ Cardinality(Values(operands[1])) > Pow2(kDefaultMaxIntervalBits + 1)

\* ------------------------------------------------------------------ comparison runs
InitCmp == Idle(OperandPairs(MaxWidth) \cup ScenarioPairs)

\* What dereferencing the empty optional of an empty set's ConvexHull(),
\* LowerBound() or UpperBound() can lead to: the behaviour is undefined, so
\* the call may stop or return any one-bit result.
UndefinedOutcomes == {Fatal, Precise(0, 1), Precise(1, 1), Maximal(1)}

\* ULt and UGt dereference the hulls of both operands with no CHECK.
ComparisonOutcomes(f, a, b) ==
  IF IsEmpty(a) \/ IsEmpty(b) THEN UndefinedOutcomes
  ELSE {IF f = "ULt" THEN ULt(a, b) ELSE UGt(a, b)}

\* SLt and SGt CHECK that both operands are normalized and then dereference
\* their bounds.
SignedComparisonOutcomes(f, a, b) ==
  IF ~IsNormalized(a) \/ ~IsNormalized(b) THEN {Fatal}
  ELSE IF IsEmpty(a) \/ IsEmpty(b) THEN UndefinedOutcomes
  ELSE {IF f = "SLt" THEN SLt(a, b) ELSE SGt(a, b)}

DoEq ==
  /\ op = "init" /\ Len(operands) = 2
  /\ op' = "Eq"
  /\ result' = Eq(operands[1], operands[2])
  /\ UNCHANGED <<operands, arg, tern>>

DoNe ==
  /\ op = "init" /\ Len(operands) = 2
  /\ op' = "Ne"
  /\ result' = Ne(operands[1], operands[2])
  /\ UNCHANGED <<operands, arg, tern>>

DoULt ==
  /\ op = "init" /\ Len(operands) = 2
  /\ op' = "ULt"
  /\ result' \in ComparisonOutcomes("ULt", operands[1], operands[2])
  /\ UNCHANGED <<operands, arg, tern>>

DoUGt ==
  /\ op = "init" /\ Len(operands) = 2
  /\ op' = "UGt"
  /\ result' \in ComparisonOutcomes("UGt", operands[1], operands[2])
  /\ UNCHANGED <<operands, arg, tern>>

DoSLt ==
  /\ op = "init" /\ Len(operands) = 2
  /\ op' = "SLt"
  /\ result' \in SignedComparisonOutcomes("SLt", operands[1], operands[2])
  /\ UNCHANGED <<operands, arg, tern>>

DoSGt ==
  /\ op = "init" /\ Len(operands) = 2
  /\ op' = "SGt"
  /\ result' \in SignedComparisonOutcomes("SGt", operands[1], operands[2])
  /\ UNCHANGED <<operands, arg, tern>>

NextCmp == DoEq \/ DoNe \/ DoULt \/ DoUGt \/ DoSLt \/ DoSGt

SpecCmp == InitCmp /\ [][NextCmp]_vars

\* The two's-complement value of a w-bit pattern.
ToSigned(x, w) == IF x >= Pow2(w - 1) THEN x - Pow2(w) ELSE x

\* The concrete comparison as a bit.
ConcreteCompare(f, x, y, w) ==
  LET holds == CASE f = "Eq"  -> x = y
                 [] f = "Ne"  -> x # y
                 [] f = "ULt" -> x < y
                 [] f = "UGt" -> x > y
                 [] f = "SLt" -> ToSigned(x, w) < ToSigned(y, w)
                 [] f = "SGt" -> ToSigned(x, w) > ToSigned(y, w)
  IN  IF holds THEN 1 ELSE 0

\* C5: the comparisons are sound: the 1-bit result covers the truth value of
\* the comparison of every pair of values drawn from the operands.
CompareSound ==
  op \in {"Eq", "Ne", "ULt", "UGt", "SLt", "SGt"} =>
    /\ result.bit_count = 1
    /\ \A x \in Values(operands[1]) : \A y \in Values(operands[2]) :
         Covers(result, ConcreteCompare(op, x, y, operands[1].bit_count))

\* A signed comparison of two all-negative multi-valued operands answered
\* precisely.
CompareSoundWitness ==
  /\ op = "SLt"
  /\ is_all_negative(operands[1]) /\ is_all_negative(operands[2])
  /\ ~IsPrecise(operands[1]) /\ ~IsPrecise(operands[2])
  /\ result = Precise(1, 1)

\* ------------------------------------------------------------------ width-changing runs
\* One operand of at most MaxOperandIntervals intervals, pairs whose
\* concatenation has more intervals than the harness keeps, and triples.
InitWidth ==
  Idle(UNION {{<<a>> : a \in NormalizedSets(w, MaxOperandIntervals)} : w \in 1 .. WideWidth}
       \cup (DenseSets(MaxWidth) \X DenseSets(WideWidth))
       \cup (NormalizedSets(1, 1) \X NormalizedSets(MaxWidth, MaxOperandIntervals))
       \cup (NormalizedSets(2, MaxOperandIntervals)
               \X NormalizedSets(1, 1) \X NormalizedSets(2, MaxOperandIntervals)))

DoTruncate ==
  /\ op = "init" /\ Len(operands) = 1
  /\ \E width \in 1 .. operands[1].bit_count :
       /\ op' = "Truncate"
       /\ arg' = <<width>>
       /\ result' = Truncate(operands[1], width)
  /\ UNCHANGED <<operands, tern>>

DoZeroExtend ==
  /\ op = "init" /\ Len(operands) = 1
  /\ \E width \in operands[1].bit_count .. operands[1].bit_count + 2 :
       /\ op' = "ZeroExtend"
       /\ arg' = <<width>>
       /\ result' = ZeroExtend(operands[1], width)
  /\ UNCHANGED <<operands, tern>>

DoSignExtend ==
  /\ op = "init" /\ Len(operands) = 1
  /\ \E width \in operands[1].bit_count .. operands[1].bit_count + 2 :
       /\ op' = "SignExtend"
       /\ arg' = <<width>>
       /\ result' = SignExtend(operands[1], width)
  /\ UNCHANGED <<operands, tern>>

DoConcat ==
  /\ op = "init" /\ Len(operands) >= 2
  /\ op' = "Concat"
  /\ result' = Concat(operands)
  /\ UNCHANGED <<operands, arg, tern>>

\* ZeroExtend(Truncate(s, w), w').
DoTruncateZeroExtend ==
  /\ op = "init" /\ Len(operands) = 1
  /\ \E width \in 1 .. operands[1].bit_count : \E wider \in width .. width + 1 :
       /\ op' = "TruncateZeroExtend"
       /\ arg' = <<width, wider>>
       /\ result' = ZeroExtend(Truncate(operands[1], width), wider)
  /\ UNCHANGED <<operands, tern>>

NextWidth ==
  DoTruncate \/ DoZeroExtend \/ DoSignExtend \/ DoConcat \/ DoTruncateZeroExtend

SpecWidth == InitWidth /\ [][NextWidth]_vars

\* Every concatenation x_1:...:x_n of values drawn from sets[from ..].
RECURSIVE ConcatValues(_, _)
ConcatValues(sets, from) ==
  IF from > Len(sets) THEN {[v |-> 0, w |-> 0]}
  ELSE {[v |-> x * Pow2(r.w) + r.v, w |-> sets[from].bit_count + r.w] :
          <<x, r>> \in Values(sets[from]) \X ConcatValues(sets, from + 1)}

\* C6: Truncate, ZeroExtend, SignExtend and Concat are sound, and
\* ZeroExtend(Truncate(s, w), w') covers every value of s below 2^w.
WidthChangeSound ==
  /\ op = "Truncate" =>
       /\ result.bit_count = arg[1]
       /\ \A x \in Values(operands[1]) : Covers(result, x % Pow2(arg[1]))
  /\ op = "ZeroExtend" =>
       /\ result.bit_count = arg[1]
       /\ \A x \in Values(operands[1]) : Covers(result, x)
  /\ op = "SignExtend" =>
       /\ result.bit_count = arg[1]
       /\ \A x \in Values(operands[1]) :
            Covers(result,
                   IF x >= Pow2(operands[1].bit_count - 1)
                   THEN x + Pow2(arg[1]) - Pow2(operands[1].bit_count)
                   ELSE x)
  /\ op = "Concat" =>
       \A c \in ConcatValues(operands, 1) :
         result.bit_count = c.w /\ Covers(result, c.v)
  /\ op = "TruncateZeroExtend" =>
       /\ result.bit_count = arg[2]
       /\ \A x \in Values(operands[1]) : x < Pow2(arg[1]) => Covers(result, x)

\* A truncation whose sliced interval is improper and was split in two.
WidthChangeSoundWitness ==
  /\ op = "Truncate"
  /\ NumberOfIntervals(operands[1]) = 1
  /\ arg[1] < operands[1].bit_count
  /\ NumberOfIntervals(result) = 2
  /\ UpperBound(operands[1].intervals[1]) % Pow2(arg[1])
       < LowerBound(operands[1].intervals[1]) % Pow2(arg[1])

\* ------------------------------------------------------------------ MinimizeIntervals runs
\* Normalized sets of width w with nearly as many intervals as fit.
ManyIntervalSets(w) == SetsWithIntervals(w, Pow2(w - 1) - 2, Pow2(w - 1))

DoMinimizeIntervals ==
  /\ op = "init"
  /\ \E size \in -1 .. NumberOfIntervals(Normalize(operands[1])) + 1 :
       /\ op' = "MinimizeIntervals"
       /\ arg' = <<size>>
       /\ result' = MinimizeIntervals(operands[1], size)
  /\ UNCHANGED <<operands, tern>>

\* Sets with gaps of different and of equal sizes.
GapScenarios ==
  {IntervalSet(5, <<Interval(0, 0), Interval(2, 2), Interval(10, 20)>>),
   IntervalSet(3, <<Interval(0, 0), Interval(2, 2), Interval(4, 4)>>)}

InitMinimize ==
  Idle({<<s>> : s \in NormalizedSets(WideWidth, MaxIntervals)
                       \cup ManyIntervalSets(WideWidth)
                       \cup ArbitrarySets(2, MaxIntervals)
                       \cup GapScenarios})

SpecMinimize == InitMinimize /\ [][DoMinimizeIntervals]_vars

\* C7: for k >= 1, MinimizeIntervals(s, k) is a normalized superset of s with
\* at most k intervals.
MinimizeIsSmallSuperset ==
  (op = "MinimizeIntervals" /\ arg[1] >= 1) =>
    /\ result.bit_count = operands[1].bit_count
    /\ IsNormalized(result)
    /\ Values(operands[1]) \subseteq Values(result)
    /\ NumberOfIntervals(result) <= arg[1]

\* The heap path: at least two merges, down to a budget of two or more.
MinimizeIsSmallSupersetWitness ==
  /\ op = "MinimizeIntervals"
  /\ arg[1] >= 2
  /\ NumberOfIntervals(operands[1]) >= arg[1] + 2
  /\ IsNormalized(operands[1])
  /\ NumberOfIntervals(result) = arg[1]

InitOptimal == Idle({<<s>> : s \in NormalizedSets(OptimalWidth, Pow2(OptimalWidth - 1))})

SpecOptimal == InitOptimal /\ [][DoMinimizeIntervals]_vars

\* Every normalized set of the operand's width that has at most k intervals
\* and covers the operand.
SmallSupersets(s, k) ==
  {t \in SetsWithIntervals(s.bit_count, 1, k) : Values(s) \subseteq Values(t)}

\* C8: for k >= 1, no superset of s made of at most k intervals covers fewer
\* values than MinimizeIntervals(s, k).
MinimizeIsOptimal ==
  (op = "MinimizeIntervals" /\ arg[1] >= 1) =>
    \A t \in SmallSupersets(operands[1], arg[1]) :
      Cardinality(Values(t)) >= Cardinality(Values(result))

\* The heap path on unequal gaps: some other superset of at most k intervals
\* covers strictly more values than the result.
MinimizeIsOptimalWitness ==
  /\ op = "MinimizeIntervals"
  /\ arg[1] >= 2
  /\ NumberOfIntervals(operands[1]) >= arg[1] + 2
  /\ \E t \in SmallSupersets(operands[1], arg[1]) :
       /\ NumberOfIntervals(t) = arg[1]
       /\ Values(t) # Values(result)
       /\ \A i \in 1 .. Len(t.intervals) :
            /\ \E j \in 1 .. Len(operands[1].intervals) :
                 LowerBound(t.intervals[i]) = LowerBound(operands[1].intervals[j])
            /\ \E j \in 1 .. Len(operands[1].intervals) :
                 UpperBound(t.intervals[i]) = UpperBound(operands[1].intervals[j])
       /\ Cardinality(Values(t)) > Cardinality(Values(result))

\* ------------------------------------------------------------------ ternary bridge runs
TernaryVectors(w) == [1 .. w -> TernaryValues]

InitTernary ==
  /\ op = "init"
  /\ \/ /\ operands \in SingleOperands(WideWidth)
        /\ tern = <<>>
     \/ /\ operands = <<>>
        /\ \E w \in 1 .. MaxTernaryWidth : tern \in TernaryVectors(w)
  /\ arg = <<>>
  /\ result = NoSet

DoExtractTernaryVector ==
  /\ op = "init" /\ Len(operands) = 1
  /\ op' = "ExtractTernaryVector"
  /\ IF ExtractTernaryVectorChecks(operands[1])
     THEN tern' = ExtractTernaryVector(operands[1]) /\ result' = result
     ELSE tern' = tern /\ result' = Fatal
  /\ UNCHANGED <<operands, arg>>

DoFromTernary ==
  /\ op = "ExtractTernaryVector" \/ (op = "init" /\ operands = <<>>)
  /\ \E max_interval_bits \in 0 .. MaxBudget :
       /\ op' = "FromTernary"
       /\ arg' = <<max_interval_bits>>
       /\ result' = FromTernary(tern, max_interval_bits)
  /\ UNCHANGED <<operands, tern>>

NextTernary == DoExtractTernaryVector \/ DoFromTernary

SpecTernary == InitTernary /\ [][NextTernary]_vars

\* Number of unknown bits above the lowest known bit.
UnknownsAboveLowestKnown(tv) ==
  Cardinality({i \in 1 .. Len(tv) : IsUnknown(tv[i]) /\ i - 1 > FirstKnown(tv)})

\* C9: FromTernary(ExtractTernary(s), b) covers s for every budget b, and
\* every value of s agrees with ExtractTernary(s) on the known bits.
RoundTripCovers ==
  /\ (op \in {"ExtractTernaryVector", "FromTernary"} /\ operands # <<>>) =>
       \A x \in Values(operands[1]) : Consistent(tern, x)
  /\ (op = "FromTernary" /\ operands # <<>>) =>
       /\ result.bit_count = operands[1].bit_count
       /\ Values(operands[1]) \subseteq Values(result)

\* A round trip over budget: the set has several intervals, its ternary has
\* more unknown bits above the lowest known one than the budget, and the
\* result is neither the set nor maximal.
RoundTripCoversWitness ==
  /\ op = "FromTernary"
  /\ operands # <<>>
  /\ NumberOfIntervals(operands[1]) >= 2
  /\ UnknownsAboveLowestKnown(tern) > arg[1]
  /\ Values(result) # Values(operands[1])
  /\ result # Maximal(result.bit_count)

\* C10 as stated: FromTernary(t, max_intervals) has at most max_intervals
\* intervals.
FromTernaryAtMostBudgetIntervals ==
  op = "FromTernary" => NumberOfIntervals(result) <= arg[1]

\* C10 as amended: FromTernary(t, max_interval_bits) has at most
\* 2^max_interval_bits intervals.
FromTernaryAtMostPow2BudgetIntervals ==
  op = "FromTernary" => NumberOfIntervals(result) <= Pow2(arg[1])

\* A vector over budget whose result has exactly 2^max_interval_bits
\* intervals, more than max_interval_bits.
FromTernaryAtMostPow2BudgetIntervalsWitness ==
  /\ op = "FromTernary"
  /\ arg[1] >= 2
  /\ UnknownsAboveLowestKnown(tern) > arg[1]
  /\ NumberOfIntervals(result) = Pow2(arg[1])

\* ------------------------------------------------------------------ precision of the harness
SingleInterval(s) == NumberOfIntervals(s) = 1

\* The only interval of a single-interval set.
Only(s) == s.intervals[1]

Width == operands[1].bit_count

\* C11 as stated: Add of two singleton sets is the singleton of the sum
\* modulo 2^w, also when the sum wraps.
AddOfSingletonsIsExact ==
  (op = "Add" /\ IsPrecise(operands[1]) /\ IsPrecise(operands[2])) =>
    result = Precise((GetPreciseValue(operands[1]) + GetPreciseValue(operands[2]))
                       % Pow2(Width), Width)

\* C11 amended: Add of two singleton sets is the singleton of the sum when the
\* sum fits in w bits, and the maximal set when it does not.
AddOfSingletonsIsExactUnlessWrapped ==
  (op = "Add" /\ IsPrecise(operands[1]) /\ IsPrecise(operands[2])) =>
    LET sum == GetPreciseValue(operands[1]) + GetPreciseValue(operands[2])
    IN  result = IF sum < Pow2(Width) THEN Precise(sum, Width) ELSE Maximal(Width)

\* 0xFF + 0x01 over 8 bits: the sum wraps and the result is maximal.
AddOfSingletonsIsExactUnlessWrappedWitness ==
  /\ op = "Add"
  /\ operands = <<Precise(255, 8), Precise(1, 8)>>
  /\ result = Maximal(8)

\* The operands of Sub are single intervals and every difference wraps.
EveryDifferenceWraps ==
  /\ op = "Sub"
  /\ SingleInterval(operands[1]) /\ SingleInterval(operands[2])
  /\ UpperBound(Only(operands[1])) < LowerBound(Only(operands[2]))

\* C12 as stated: when every difference wraps, Sub of single intervals is the
\* single interval [(a_lo - b_hi) mod 2^w, (a_hi - b_lo) mod 2^w].
SubAllWrappedIsOneInterval ==
  EveryDifferenceWraps =>
    result = IntervalSet(Width,
               <<Interval((LowerBound(Only(operands[1])) - UpperBound(Only(operands[2])))
                            % Pow2(Width),
                          (UpperBound(Only(operands[1])) - LowerBound(Only(operands[2])))
                            % Pow2(Width))>>)

\* C12 amended: when every difference wraps, both corners overflow and Sub of
\* single intervals is the maximal set; Sub([10, 12], [20, 25]) over 8 bits is
\* [0, 255].
SubAllWrappedIsMaximal ==
  EveryDifferenceWraps => result = Maximal(Width)

\* [10, 12] - [20, 25] over 8 bits gives the maximal set.
SubAllWrappedIsMaximalWitness ==
  /\ op = "Sub"
  /\ operands = <<IntervalSet(8, <<Interval(10, 12)>>), IntervalSet(8, <<Interval(20, 25)>>)>>
  /\ EveryDifferenceWraps
  /\ result = Maximal(8)

\* The three-bit product of the scenario [2, 3] * [2, 3] over 4 bits.
TruncatedProductScenario ==
  /\ op = "UMul"
  /\ operands = <<IntervalSet(4, <<Interval(2, 3)>>), IntervalSet(4, <<Interval(2, 3)>>)>>
  /\ arg = <<3>>

\* C14 as stated: UMul([2, 3], [2, 3], 3) over 4 bits is the maximal set.
TruncatedProductIsMaximal ==
  TruncatedProductScenario => result = Maximal(3)

\* C14 amended: UMul([2, 3], [2, 3], 3) over 4 bits is {[0, 1], [4, 7]}: only
\* the upper corner 9 overflows, to 1, which is below the lower corner 4.
TruncatedProductIsTwoIntervals ==
  TruncatedProductScenario => result = IntervalSet(3, <<Interval(0, 1), Interval(4, 7)>>)

TruncatedProductIsTwoIntervalsWitness ==
  /\ TruncatedProductScenario
  /\ NumberOfIntervals(result) = 2
  /\ ~Covers(result, 2) /\ ~Covers(result, 3)

\* C15: without overflow the result is the interval of the corners: Add of
\* [a, b] and [c, d] with b + d < 2^w is [a + c, b + d], and
\* UMul([2, 3], [2, 3], 4) over 4 bits is [4, 9].
NoOverflowIsCornerInterval ==
  /\ (/\ op = "Add"
      /\ SingleInterval(operands[1]) /\ SingleInterval(operands[2])
      /\ UpperBound(Only(operands[1])) + UpperBound(Only(operands[2])) < Pow2(Width)) =>
       result = IntervalSet(Width,
                  <<Interval(LowerBound(Only(operands[1])) + LowerBound(Only(operands[2])),
                             UpperBound(Only(operands[1])) + UpperBound(Only(operands[2])))>>)
  /\ (/\ op = "UMul"
      /\ operands = <<IntervalSet(4, <<Interval(2, 3)>>), IntervalSet(4, <<Interval(2, 3)>>)>>
      /\ arg = <<4>>) =>
       result = IntervalSet(4, <<Interval(4, 9)>>)

\* 5 + [3, 7] over 8 bits is [8, 12].
NoOverflowIsCornerIntervalWitness ==
  /\ op = "Add"
  /\ operands = <<Precise(5, 8), IntervalSet(8, <<Interval(3, 7)>>)>>
  /\ result = IntervalSet(8, <<Interval(8, 12)>>)

\* Both operands of SLt are single values of opposite sign.
OppositeSigns ==
  /\ op = "SLt"
  /\ IsPrecise(operands[1]) /\ IsPrecise(operands[2])
  /\ Width >= 2
  /\ GetFromMsb(GetPreciseValue(operands[1]), Width, 0)
       # GetFromMsb(GetPreciseValue(operands[2]), Width, 0)

\* C13 as stated: SLt of a negative and a non-negative single value is
\* precisely 1, and of a non-negative and a negative one precisely 0.
SLtOppositeSignsIsPrecise ==
  OppositeSigns =>
    result = Precise(GetFromMsb(GetPreciseValue(operands[1]), Width, 0), 1)

\* C13 amended: SLt of two single values of opposite sign is the maximal
\* one-bit set: the bias wraps for the negative operand, whose biased set is
\* maximal.
SLtOppositeSignsIsUnknown ==
  OppositeSigns => result = Maximal(1)

\* SLt(0xFF, 0x01) over 8 bits is unknown.
SLtOppositeSignsIsUnknownWitness ==
  /\ OppositeSigns
  /\ operands = <<Precise(255, 8), Precise(1, 8)>>
  /\ result = Maximal(1)

\* ------------------------------------------------------------------ tightness of the round trip
\* A round trip of a single interval whose bounds share a most significant bit.
SharedPrefixRoundTrip ==
  /\ op = "FromTernary"
  /\ operands # <<>>
  /\ SingleInterval(operands[1])
  /\ CommonPrefixLength(LowerBound(Only(operands[1])), UpperBound(Only(operands[1])),
                        Width) >= 1

\* Number of bits of the operand's only interval below the common prefix of
\* its bounds.
BitsBelowPrefix ==
  Width - CommonPrefixLength(LowerBound(Only(operands[1])), UpperBound(Only(operands[1])),
                             Width)

\* C16 as stated: the round trip of a single interval whose bounds share a
\* non-empty MSB prefix gives the interval back.
RoundTripIsTight ==
  SharedPrefixRoundTrip => result = operands[1]

\* C16 amended: the round trip of a single interval [lo, hi] whose bounds share
\* the non-empty longest MSB prefix p gives [p0..0, p1..1], whatever the
\* budget; that is the interval itself only when lo ends in zeros and hi in
\* ones below p.
RoundTripIsPrefixBlock ==
  SharedPrefixRoundTrip =>
    LET lo    == LowerBound(Only(operands[1]))
        block == Pow2(BitsBelowPrefix)
        base  == lo - (lo % block)
    IN  result = IntervalSet(Width, <<Interval(base, base + block - 1)>>)

\* A single interval with a shared prefix that is not a whole block: the round
\* trip is strictly larger.
RoundTripIsPrefixBlockWitness ==
  /\ SharedPrefixRoundTrip
  /\ result # operands[1]
  /\ Values(operands[1]) \subseteq Values(result)
  /\ result # Maximal(Width)

\* ------------------------------------------------------------------ all transfer functions
InitTransfer ==
  Idle(OperandPairs(MaxWidth) \cup SingleOperands(MaxWidth) \cup ScenarioPairs)

DoAndReduce ==
  /\ op = "init" /\ Len(operands) = 1
  /\ op' = "AndReduce"
  /\ result' = AndReduce(operands[1])
  /\ UNCHANGED <<operands, arg, tern>>

DoOrReduce ==
  /\ op = "init" /\ Len(operands) = 1
  /\ op' = "OrReduce"
  /\ result' = OrReduce(operands[1])
  /\ UNCHANGED <<operands, arg, tern>>

DoXorReduce ==
  /\ op = "init" /\ Len(operands) = 1
  /\ op' = "XorReduce"
  /\ result' = XorReduce(operands[1])
  /\ UNCHANGED <<operands, arg, tern>>

\* Gate(cond, val) with cond = operands[1] and val = operands[2].
DoGate ==
  /\ op = "init" /\ Len(operands) = 2
  /\ op' = "Gate"
  /\ result' = Gate(operands[1], operands[2])
  /\ UNCHANGED <<operands, arg, tern>>

DoOneHot ==
  /\ op = "init" /\ Len(operands) = 1
  /\ \E lsb_or_msb \in {kLsb, kMsb} : \E max_interval_bits \in 0 .. MaxBudget :
       /\ op' = "OneHot"
       /\ arg' = <<max_interval_bits, lsb_or_msb>>
       /\ result' = OneHot(operands[1], lsb_or_msb, max_interval_bits)
  /\ UNCHANGED <<operands, tern>>

NextTransfer ==
  \/ DoAdd \/ DoSub \/ DoUMul \/ DoUDiv \/ DoNeg
  \/ DoSignExtend \/ DoZeroExtend \/ DoTruncate \/ DoConcat
  \/ DoNot \/ DoAnd \/ DoOr \/ DoXor
  \/ DoAndReduce \/ DoOrReduce \/ DoXorReduce
  \/ DoEq \/ DoNe \/ DoULt \/ DoUGt \/ DoSLt \/ DoSGt
  \/ DoGate \/ DoOneHot

SpecTransfer == InitTransfer /\ [][NextTransfer]_vars

\* The operations that return what PerformVariadicOp returns.
HarnessOps == {"Add", "Sub", "Neg", "UMul", "SignExtend", "ZeroExtend", "Concat"}

\* Width of the result of the operation that ran.
ResultWidth ==
  CASE op \in {"UMul", "SignExtend", "ZeroExtend", "Truncate"} -> arg[1]
    [] op = "Concat" -> SumBitCounts(operands, Len(operands))
    [] op \in {"Eq", "Ne", "ULt", "UGt", "SLt", "SGt",
               "AndReduce", "OrReduce", "XorReduce"} -> 1
    [] op = "Gate" -> operands[2].bit_count
    [] op = "OneHot" -> operands[1].bit_count + 1
    [] OTHER -> operands[1].bit_count

\* C17 as stated: every transfer function returns a normalized set of the
\* operation's result width, and Add, Sub, Neg, UMul, UDiv, SignExtend,
\* ZeroExtend and Concat return at most 16 intervals.
TransferResultNormalizedAtMost16 ==
  op # "init" =>
    /\ IsNormalized(result)
    /\ result.bit_count = ResultWidth
    /\ op \in HarnessOps \cup {"UDiv"} => NumberOfIntervals(result) <= 16

\* C17 amended: every transfer function returns a normalized set of the
\* operation's result width; Add, Sub, Neg, UMul, SignExtend, ZeroExtend and
\* Concat return at most 16 intervals, and so does UDiv when the divisor does
\* not cover zero; when it does, UDiv returns at most 17, the 16 of the harness
\* and the all-ones value.
TransferResultNormalized ==
  op # "init" =>
    /\ IsNormalized(result)
    /\ result.bit_count = ResultWidth
    /\ op \in HarnessOps => NumberOfIntervals(result) <= 16
    /\ op = "UDiv" =>
         NumberOfIntervals(result) <= IF CoversZero(operands[2]) THEN 17 ELSE 16

\* UDiv by a divisor covering zero that returns 17 intervals.
TransferResultNormalizedWitness ==
  /\ op = "UDiv"
  /\ CoversZero(operands[2])
  /\ NumberOfIntervals(result) = 17
  /\ IsNormalized(result)

\* ------------------------------------------------------------------ boundary behaviours
\* C18: UDiv by the set holding only zero is the set holding only the
\* all-ones value, whatever the dividend.
UDivByZeroIsAllOnes ==
  (op = "UDiv" /\ operands[2] = Precise(0, Width)) =>
    result = Precise(AllOnes(Width), Width)

\* A dividend of several intervals, none of which holds the all-ones value,
\* divided by zero.
UDivByZeroIsAllOnesWitness ==
  /\ op = "UDiv"
  /\ operands[2] = Precise(0, Width)
  /\ NumberOfIntervals(operands[1]) >= 2
  /\ ~CoversMax(operands[1])
  /\ result = Precise(AllOnes(Width), Width)

\* Some interval of the operand of Truncate holds at least 2^width values.
SomeIntervalSpansOutput ==
  /\ op = "Truncate"
  /\ \E n \in 1 .. NumberOfIntervals(operands[1]) :
       UpperBound(operands[1].intervals[n]) - LowerBound(operands[1].intervals[n]) + 1
         >= Pow2(arg[1])

\* C19: Truncate to width is maximal when some interval of the operand holds
\* at least 2^width values, exactly 2^width included.
TruncateSaturates ==
  SomeIntervalSpansOutput => result = Maximal(arg[1])

\* The boundary: the widest interval holds exactly 2^width values and does not
\* start at a multiple of 2^width, so its truncation is improper.
TruncateSaturatesWitness ==
  /\ SomeIntervalSpansOutput
  /\ arg[1] < Width
  /\ \A n \in 1 .. NumberOfIntervals(operands[1]) :
       UpperBound(operands[1].intervals[n]) - LowerBound(operands[1].intervals[n]) + 1
         <= Pow2(arg[1])
  /\ \A n \in 1 .. NumberOfIntervals(operands[1]) :
       LowerBound(operands[1].intervals[n]) % Pow2(arg[1]) # 0
  /\ result = Maximal(arg[1])

\* The hulls of the operands share no value.
HullsDisjoint ==
  \/ SetUpperBound(operands[1]) < SetLowerBound(operands[2])
  \/ SetUpperBound(operands[2]) < SetLowerBound(operands[1])

\* C20: ULt and UGt decide on the hulls: with disjoint hulls ULt is precisely
\* 1 when the hull of A lies below the hull of B and precisely 0 otherwise,
\* UGt the mirror image; with overlapping hulls both are maximal.
UnsignedCompareOnHulls ==
  op \in {"ULt", "UGt"} =>
    IF HullsDisjoint
    THEN result = Precise(IF (op = "ULt") =
                               (SetUpperBound(operands[1]) < SetLowerBound(operands[2]))
                          THEN 1 ELSE 0, 1)
    ELSE result = Maximal(1)

\* The operands share no value, every value of the second lies between values
\* of the first, and ULt does not decide.
UnsignedCompareOnHullsWitness ==
  /\ op = "ULt"
  /\ Disjoint(operands[1], operands[2])
  /\ ~HullsDisjoint
  /\ result = Maximal(1)

\* ------------------------------------------------------------------ reductions and gate runs
\* A condition of one or two bits with a value of up to MaxWidth bits.
GatePairs ==
  UNION {NormalizedSets(cw, MaxOperandIntervals) \X NormalizedSets(w, MaxOperandIntervals) :
           <<cw, w>> \in (1 .. 2) \X (1 .. MaxWidth)}

InitSelect ==
  Idle(SingleOperands(WideWidth)
       \cup {<<EmptySet(w)>> : w \in 1 .. WideWidth}
       \cup {<<s>> : s \in DenseSets(WideWidth)}
       \cup GatePairs)

NextSelect == DoAndReduce \/ DoOrReduce \/ DoXorReduce \/ DoGate

SpecSelect == InitSelect /\ [][NextSelect]_vars

\* C21: AndReduce(A) is Precise(1) exactly when A is {MAX}, Precise(0) when A
\* does not cover MAX and Maximal(1) otherwise; OrReduce(A) is Precise(0)
\* exactly when A is {0}, Precise(1) when A does not cover 0 and Maximal(1)
\* otherwise.
ReduceToExtremes ==
  /\ op = "AndReduce" =>
       /\ result = Precise(1, 1) <=> Values(operands[1]) = {AllOnes(Width)}
       /\ AllOnes(Width) \notin Values(operands[1]) => result = Precise(0, 1)
       /\ (/\ AllOnes(Width) \in Values(operands[1])
           /\ Values(operands[1]) # {AllOnes(Width)}) => result = Maximal(1)
  /\ op = "OrReduce" =>
       /\ result = Precise(0, 1) <=> Values(operands[1]) = {0}
       /\ 0 \notin Values(operands[1]) => result = Precise(1, 1)
       /\ (/\ 0 \in Values(operands[1])
           /\ Values(operands[1]) # {0}) => result = Maximal(1)

\* An AndReduce of a set that holds MAX and another value.
ReduceToExtremesWitness ==
  /\ op = "AndReduce"
  /\ Width >= 2
  /\ AllOnes(Width) \in Values(operands[1])
  /\ Cardinality(Values(operands[1])) >= 2
  /\ result = Maximal(1)

\* Number of set bits of x.
RECURSIVE PopCount(_)
PopCount(x) == IF x = 0 THEN 0 ELSE (x % 2) + PopCount(x \div 2)

\* Every interval of s is a single value and all of them have parity p.
SingletonsOfParity(s, p) ==
  /\ NumberOfIntervals(s) >= 1
  /\ \A n \in 1 .. NumberOfIntervals(s) :
       /\ LowerBound(s.intervals[n]) = UpperBound(s.intervals[n])
       /\ PopCount(LowerBound(s.intervals[n])) % 2 = p

\* C22: XorReduce(A) is Precise(p) when every interval of A is a single value
\* of bit parity p, and Maximal(1) otherwise, in particular for a set with a
\* wider interval or with no interval.
XorReduceIsCommonParity ==
  op = "XorReduce" =>
    /\ \A p \in {0, 1} : SingletonsOfParity(operands[1], p) => result = Precise(p, 1)
    /\ (\A p \in {0, 1} : ~SingletonsOfParity(operands[1], p)) => result = Maximal(1)
    /\ NumberOfIntervals(operands[1]) = 0 => result = Maximal(1)

\* Three single values of odd parity reduce to a known one.
XorReduceIsCommonParityWitness ==
  /\ op = "XorReduce"
  /\ NumberOfIntervals(operands[1]) = 3
  /\ SingletonsOfParity(operands[1], 1)
  /\ result = Precise(1, 1)

\* C23: Gate(cond, val) is Precise(0) of val's width when cond is precisely
\* 0, val when cond is precise and non-zero or does not cover zero, and val
\* with 0 added when cond is imprecise and covers zero.
GateByCondition ==
  op = "Gate" =>
    LET cond == Values(operands[1])
        val == operands[2]
    IN  /\ cond = {0} => result = Precise(0, val.bit_count)
        /\ (Cardinality(cond) = 1 /\ cond # {0}) => result = val
        /\ (Cardinality(cond) > 1 /\ 0 \in cond) =>
             result = FromValues(Values(val) \cup {0}, val.bit_count)
        /\ 0 \notin cond => result = val

\* An imprecise condition that covers zero adds 0 to a value without it.
GateByConditionWitness ==
  /\ op = "Gate"
  /\ Cardinality(Values(operands[1])) > 1
  /\ 0 \in Values(operands[1])
  /\ ~CoversZero(operands[2])
  /\ result # operands[2]
  /\ NumberOfIntervals(result) = NumberOfIntervals(operands[2]) + 1

\* ------------------------------------------------------------------ calls outside the preconditions
\* Sets of one or two bits with and without the preconditions: empty,
\* unsorted, overlapping and improper ones included.
UncheckedSets(n) == ArbitrarySets(1, n) \cup ArbitrarySets(2, n)

InitChecked ==
  /\ op = "init"
  /\ \/ /\ operands \in {<<a>> : a \in UncheckedSets(2)}
                        \cup (UncheckedSets(1) \X UncheckedSets(1))
        /\ tern = <<>>
     \/ /\ operands = <<>>
        /\ \E w \in 1 .. MaxWidth : tern \in TernaryVectors(w)
  /\ arg = <<>>
  /\ result = NoSet

\* FromTernary with a budget on either side of zero.
DoFromTernaryAnyBudget ==
  /\ op = "init" /\ operands = <<>>
  /\ \E max_interval_bits \in -2 .. 1 :
       /\ op' = "FromTernary"
       /\ arg' = <<max_interval_bits>>
       /\ result' = FromTernary(tern, max_interval_bits)
  /\ UNCHANGED <<operands, tern>>

NextChecked ==
  \/ DoExtractTernaryVector \/ DoFromTernaryAnyBudget
  \/ DoNot \/ DoAnd \/ DoOr \/ DoXor \/ DoOneHot
  \/ DoULt \/ DoUGt \/ DoSLt \/ DoSGt

SpecChecked == InitChecked /\ [][NextChecked]_vars

\* Some operand of the call is empty or not normalized.
SomeOperandUnchecked ==
  \E n \in 1 .. Len(operands) : ~ExtractTernaryVectorChecks(operands[n])

\* C24: a call outside its preconditions stops in a failed CHECK and returns
\* no set: FromTernary with a negative budget, ExtractTernaryVector, Not, And,
\* Or, Xor and OneHot on an empty or non-normalized set, And, Or and Xor on
\* operands of different widths, ULt, UGt, SLt and SGt on an empty operand.
PreconditionViolationsAreFatal ==
  /\ (op = "FromTernary" /\ arg[1] < 0) => result = Fatal
  /\ (/\ op \in {"ExtractTernaryVector", "Not", "And", "Or", "Xor", "OneHot"}
      /\ SomeOperandUnchecked) => result = Fatal
  /\ (/\ op \in {"And", "Or", "Xor"}
      /\ operands[1].bit_count # operands[2].bit_count) => result = Fatal
  /\ (/\ op \in {"ULt", "UGt", "SLt", "SGt"}
      /\ \E n \in 1 .. 2 : IsEmpty(operands[n])) => result = Fatal

\* ------------------------------------------------------------------ double-sided overflow
\* Both corners of the intervals a and b overflow once: the least sum or
\* product does not fit the result width, or the greatest difference is
\* negative.
BothCornersOverflow(a, b) ==
  CASE op = "Add"  -> LowerBound(a) + LowerBound(b) >= Pow2(Width)
    [] op = "Sub"  -> UpperBound(a) < LowerBound(b)
    [] op = "UMul" -> LowerBound(a) * LowerBound(b) >= Pow2(arg[1])

\* The choices (i, j) of one interval per operand whose corners both overflow.
OverflowingChoices ==
  {c \in (1 .. NumberOfIntervals(operands[1])) \X (1 .. NumberOfIntervals(operands[2])) :
     BothCornersOverflow(operands[1].intervals[c[1]], operands[2].intervals[c[2]])}

\* C25: when, for some choice of one interval per operand, both corner
\* results overflow once, the harness adds the maximal interval for that
\* choice and stops enumerating, and the transfer function returns Maximal.
BothCornersOverflowIsMaximal ==
  (/\ op \in {"Add", "Sub", "UMul"}
   /\ NumberOfIntervals(operands[1]) <= 5
   /\ NumberOfIntervals(operands[2]) <= 5) =>
    \A c \in OverflowingChoices :
      /\ VisitIndexes(Calc(op, operands, ResultWidth),
                      <<Monotone, IF op = "Sub" THEN Antitone ELSE Monotone>>,
                      operands, <<c[1] - 1, c[2] - 1>>, ResultWidth)
           = [add |-> <<IntervalMaximal(ResultWidth)>>, stop |-> TRUE,
              fatal |-> FALSE]
      /\ result = Maximal(ResultWidth)

\* A subtraction whose first choice of intervals does not overflow and whose
\* later choice overflows at both corners.
BothCornersOverflowIsMaximalWitness ==
  /\ op = "Sub"
  /\ NumberOfIntervals(operands[1]) = 1
  /\ NumberOfIntervals(operands[2]) = 2
  /\ OverflowingChoices = {<<1, 2>>}
  /\ UpperBound(operands[2].intervals[1]) <= LowerBound(operands[1].intervals[1])
  /\ result = Maximal(Width)

\* ------------------------------------------------------------------ order of the merges
\* The gap before interval g of s comes before the gap before interval h:
\* it is smaller, or as large and lower.
GapBefore(s, g, h) ==
  LET dist(i) == LowerBound(s.intervals[i]) - UpperBound(s.intervals[i - 1])
  IN  \/ dist(g) < dist(h)
      \/ dist(g) = dist(h) /\ LowerBound(s.intervals[g]) < LowerBound(s.intervals[h])

\* The gaps of s closed under a budget of k intervals: the first
\* count(s) - k gaps in that order, each named by the interval after it.
ClosedGaps(s, k) ==
  {g \in 2 .. NumberOfIntervals(s) :
     Cardinality({h \in 2 .. NumberOfIntervals(s) : GapBefore(s, h, g)})
       < NumberOfIntervals(s) - k}

\* The values of s and of its closed gaps.
ValuesWithClosedGaps(s, k) ==
  Values(s) \cup UNION {UpperBound(s.intervals[g - 1]) .. LowerBound(s.intervals[g]) :
                          g \in ClosedGaps(s, k)}

\* C26: MinimizeIntervals closes the gaps in ascending order of (distance,
\* lower bound of the interval after the gap); with k >= count(s) the
\* normalized input is returned and with k = 1 the convex hull;
\* {[0,0],[2,2],[10,20]} and {[0,0],[2,2],[4,4]} with k = 2 give
\* {[0,2],[10,20]} and {[0,2],[4,4]}.
MinimizeClosesEarliestSmallestGaps ==
  op = "MinimizeIntervals" =>
    LET s == Normalize(operands[1])
        k == arg[1]
    IN  /\ k >= NumberOfIntervals(s) => result = s
        /\ (k >= 1 /\ k < NumberOfIntervals(s)) =>
             result = FromValues(ValuesWithClosedGaps(s, k), s.bit_count)
        /\ (k = 1 /\ ~IsEmpty(s)) =>
             result = IntervalSet(s.bit_count,
                                  <<Interval(SetLowerBound(s), SetUpperBound(s))>>)
        /\ (k = 2 /\ s.intervals = <<Interval(0, 0), Interval(2, 2), Interval(10, 20)>>) =>
             result.intervals = <<Interval(0, 2), Interval(10, 20)>>
        /\ (k = 2 /\ s.intervals = <<Interval(0, 0), Interval(2, 2), Interval(4, 4)>>) =>
             result.intervals = <<Interval(0, 2), Interval(4, 4)>>

\* Equal gaps of which only the first is closed.
MinimizeClosesEarliestSmallestGapsWitness ==
  /\ op = "MinimizeIntervals"
  /\ operands[1].intervals = <<Interval(0, 0), Interval(2, 2), Interval(4, 4)>>
  /\ arg[1] = 2
  /\ ClosedGaps(operands[1], 2) = {2}
  /\ result.intervals = <<Interval(0, 2), Interval(4, 4)>>

\* ------------------------------------------------------------------ extremes and count
\* The lower bounds and the upper bounds of the intervals of s.
LowerBounds(s) == {LowerBound(s.intervals[n]) : n \in 1 .. NumberOfIntervals(s)}

UpperBounds(s) == {UpperBound(s.intervals[n]) : n \in 1 .. NumberOfIntervals(s)}

\* C28: for a normalized non-empty set s of n intervals and k >= 1,
\* MinimizeIntervals(s, k) has exactly min(n, k) intervals, the lower and
\* upper bound of s, and only endpoints that are endpoints of intervals of s.
MinimizeKeepsExtremesAndCount ==
  (/\ op = "MinimizeIntervals"
   /\ IsNormalized(operands[1]) /\ ~IsEmpty(operands[1])
   /\ arg[1] >= 1) =>
    LET s == operands[1]
        n == NumberOfIntervals(s)
    IN  /\ NumberOfIntervals(result) = IF n < arg[1] THEN n ELSE arg[1]
        /\ SetLowerBound(result) = SetLowerBound(s)
        /\ SetUpperBound(result) = SetUpperBound(s)
        /\ LowerBounds(result) \subseteq LowerBounds(s)
        /\ UpperBounds(result) \subseteq UpperBounds(s)

\* A budget below the count by two or more whose merges reach the last
\* interval of the set.
MinimizeKeepsExtremesAndCountWitness ==
  /\ op = "MinimizeIntervals"
  /\ IsNormalized(operands[1])
  /\ arg[1] >= 2
  /\ NumberOfIntervals(operands[1]) >= arg[1] + 2
  /\ NumberOfIntervals(result) = arg[1]
  /\ LowerBound(result.intervals[arg[1]])
       < LowerBound(operands[1].intervals[NumberOfIntervals(operands[1])])
  /\ SetUpperBound(result) = SetUpperBound(operands[1])

\* ------------------------------------------------------------------ exactness of FromTernary
\* The positions (from 1, least significant first) of the unknown bits of tv.
UnknownPositions(tv) == {i \in 1 .. Len(tv) : IsUnknown(tv[i])}

\* The position of the n-th highest unknown bit of tv.
NthHighestUnknown(tv, n) ==
  CHOOSE i \in UnknownPositions(tv) :
    Cardinality({j \in UnknownPositions(tv) : j > i}) = n - 1

\* tv with every bit at or below position p made unknown.
UnknownUpTo(tv, p) == [i \in 1 .. Len(tv) |-> IF i <= p THEN kUnknown ELSE tv[i]]

\* The vector FromTernary is exact for: tv itself within the budget,
\* otherwise tv with every bit at or below its (budget + 1)-th highest unknown
\* bit made unknown.
WithinBudget(tv, max_interval_bits) ==
  IF UnknownsAboveLowestKnown(tv) <= max_interval_bits THEN tv
  ELSE UnknownUpTo(tv, NthHighestUnknown(tv, max_interval_bits + 1))

\* C29: FromTernary(t, b) covers exactly the values consistent with t when t
\* has at most b unknown bits above its lowest known bit, otherwise exactly
\* the values consistent with t widened below its (b + 1)-th highest unknown
\* bit; every value consistent with t is covered and a fully known t gives
\* Precise of its value.
FromTernaryExactUpToBudget ==
  op = "FromTernary" =>
    /\ Values(result)
         = {x \in BitsOf(Len(tern)) : Consistent(WithinBudget(tern, arg[1]), x)}
    /\ \A x \in BitsOf(Len(tern)) : Consistent(tern, x) => Covers(result, x)
    /\ UnknownPositions(tern) = {} =>
         result = Precise(CHOOSE x \in BitsOf(Len(tern)) : Consistent(tern, x), Len(tern))

\* A vector over budget with a known bit below the widened region: the result
\* covers values that are not consistent with the vector.
FromTernaryExactUpToBudgetWitness ==
  /\ op = "FromTernary"
  /\ arg[1] >= 1
  /\ UnknownsAboveLowestKnown(tern) > arg[1]
  /\ WithinBudget(tern, arg[1]) # tern
  /\ NumberOfIntervals(result) >= 2
  /\ \E x \in Values(result) : ~Consistent(tern, x)

\* C30: FromTernary(t, b) has at most 2^b intervals: one per assignment of
\* the unknown bits kept above the absorbed low run, of which there are at
\* most b.
FromTernaryIntervalsPerKeptUnknown ==
  op = "FromTernary" =>
    LET u    == UnknownsAboveLowestKnown(tern)
        kept == IF u <= arg[1] THEN u ELSE arg[1]
    IN  /\ kept <= arg[1]
        /\ NumberOfIntervals(result) <= Pow2(kept)
        /\ NumberOfIntervals(result) <= Pow2(arg[1])

\* A budget of one with three or more unknown bits above the lowest known
\* bit: two intervals.
FromTernaryIntervalsPerKeptUnknownWitness ==
  /\ op = "FromTernary"
  /\ arg[1] = 1
  /\ UnknownsAboveLowestKnown(tern) >= 3
  /\ NumberOfIntervals(result) = 2

\* ------------------------------------------------------------------ RAM rewrite: channel references
\* The types of the IR: bits of a width, the token and tuples of types.
BitsType(bit_count) == [kind |-> "bits", bit_count |-> bit_count, elements |-> <<>>]

TokenType == [kind |-> "token", bit_count |-> 0, elements |-> <<>>]

TupleType(element_types) ==
  [kind |-> "tuple", bit_count |-> 0, elements |-> element_types]

\* The type of a receive on a channel with the given payload: a non-blocking
\* receive also returns a valid bit.
ReceiveType(payload, is_blocking) ==
  TupleType(IF is_blocking THEN <<TokenType, payload>>
            ELSE <<TokenType, payload, BitsType(1)>>)

\* A node of a proc. token, predicate and data name nodes of the same proc
\* by position (0: none), elements the operands of a tuple; data is the
\* payload of a send and the operand of a tuple index, value the index of a
\* tuple index and the value of a literal; type is the node's type and loc
\* its source location.
Node(kind, type, channel_id, token, predicate, data, elements, value, is_blocking, loc) ==
  [op |-> kind, type |-> type, channel_id |-> channel_id, token |-> token,
   predicate |-> predicate, data |-> data, elements |-> elements,
   value |-> value, is_blocking |-> is_blocking, loc |-> loc]

\* Node::ReplaceUsesWith: every operand that is node old becomes node new;
\* an error and no change when the two nodes differ in type.
ReplaceUsesWith(nodes, old, new) ==
  IF nodes[old].type # nodes[new].type THEN [ok |-> FALSE, nodes |-> nodes]
  ELSE [ok |-> TRUE,
        nodes |-> [i \in 1 .. Len(nodes) |->
                     [nodes[i] EXCEPT !.token = IF @ = old THEN new ELSE @,
                                      !.predicate = IF @ = old THEN new ELSE @,
                                      !.data = IF @ = old THEN new ELSE @,
                                      !.elements =
                                        [j \in 1 .. Len(nodes[i].elements) |->
                                           IF nodes[i].elements[j] = old THEN new
                                           ELSE nodes[i].elements[j]]]]]

\* FunctionBase::RemoveNode: the position stays, the node is gone.
RemoveNode(nodes, n) ==
  [nodes EXCEPT ![n] = Node("removed", TupleType(<<>>), 0, 0, 0, 0, <<>>, 0, FALSE, 0)]

\* ExtractTupleElements<N> with N = Len(expected_element_types): one tuple
\* index of node per expected type, made in order at the location of node.
\* The loop stops at the first index whose element type is not the expected
\* one, with an error, or that the tuple does not have, where element_type
\* throws; the tuple indexes made before that stay in the proc. Elements
\* past the expected ones are not looked at.
ExtractTupleElements(nodes, node, expected_element_types) ==
  LET node_type == nodes[node].type
      N         == Len(expected_element_types)
      refused   == {idx \in 1 .. N :
                      \/ idx > Len(node_type.elements)
                      \/ expected_element_types[idx] # node_type.elements[idx]}
      stop      == IF refused = {} THEN N + 1
                   ELSE CHOOSE idx \in refused : \A other \in refused : idx <= other
  IN  IF node_type.kind # "tuple"
      THEN [status |-> "error", nodes |-> nodes, elements |-> <<>>]
      ELSE [status   |-> IF stop > N THEN "ok"
                         ELSE IF stop > Len(node_type.elements) THEN "fatal"
                         ELSE "error",
            nodes    |-> nodes \o [idx \in 1 .. stop - 1 |->
                                     Node("tuple_index", node_type.elements[idx],
                                          0, 0, 0, node, <<>>, idx - 1, FALSE,
                                          nodes[node].loc)],
            elements |-> [idx \in 1 .. stop - 1 |-> Len(nodes) + idx]]

\* MakeChannels: the channels of a RAM of configuration ram_config, added to
\* the channels of the package under the next ids. An abstract RAM gets
\* read_req (addr, mask), read_resp (data), write_req (addr, data, mask) and
\* write_resp (); a 1RW RAM req (addr, data, we, re) and resp (data); no
\* other kind gets channels. CreateStreamingChannel refuses a name the
\* package already has, and the channels made before it stay.
MakeChannels(channels, name_prefix, ram_config) ==
  LET addr_type == BitsType(ram_config.addr_width)
      mask_type == BitsType(ram_config.mask_width)
      data_type == BitsType(ram_config.width)
      wanted ==
        CASE ram_config.kind = "kAbstract" ->
               <<[logical |-> "kReadReq", name |-> name_prefix \o "_read_req",
                  type |-> TupleType(<<addr_type, mask_type>>)],
                 [logical |-> "kReadResp", name |-> name_prefix \o "_read_resp",
                  type |-> TupleType(<<data_type>>)],
                 [logical |-> "kWriteReq", name |-> name_prefix \o "_write_req",
                  type |-> TupleType(<<addr_type, data_type, mask_type>>)],
                 [logical |-> "kWriteResp", name |-> name_prefix \o "_write_resp",
                  type |-> TupleType(<<>>)]>>
          [] ram_config.kind = "k1RW" ->
               <<[logical |-> "kReq", name |-> name_prefix \o "_req",
                  type |-> TupleType(<<addr_type, data_type, BitsType(1),
                                       BitsType(1)>>)],
                 [logical |-> "kResp", name |-> name_prefix \o "_resp",
                  type |-> TupleType(<<data_type>>)]>>
          [] OTHER -> <<>>
      taken == {i \in 1 .. Len(wanted) :
                  \E c \in 1 .. Len(channels) :
                    channels[c].live /\ channels[c].name = wanted[i].name}
      stop  == IF taken = {} THEN Len(wanted) + 1
               ELSE CHOOSE i \in taken : \A other \in taken : i <= other
  IN  [status   |-> IF ram_config.kind \in {"kAbstract", "k1RW"} /\ taken = {}
                    THEN "ok" ELSE "error",
       channels |-> channels \o [i \in 1 .. stop - 1 |->
                                   [name |-> wanted[i].name,
                                    type |-> wanted[i].type, live |-> TRUE]],
       mapping  |-> [l \in {wanted[i].logical : i \in 1 .. stop - 1} |->
                       Len(channels)
                         + (CHOOSE i \in 1 .. stop - 1 : wanted[i].logical = l)]]

MapChannel(from_kind, logical_channel, to_kind) ==
  IF from_kind = "kAbstract" /\ to_kind = "k1RW"
  THEN CASE logical_channel \in {"kReadReq", "kWriteReq"}   -> "kReq"
         [] logical_channel \in {"kReadResp", "kWriteResp"} -> "kResp"
         [] OTHER -> "error"
  ELSE "error"

\* RepackPayload: the nodes with the repacking added and the repacked node.
\* The element types come from from_config. A read request (addr, mask)
\* becomes (addr, 0 of the new data width, we = 0, re = 1), a write request
\* (addr, data, mask) becomes (addr, data, we = 1, re = 0) with the data as
\* it was, a read response is checked and returned as it is, the two tuple
\* indexes of the check removed, and a write response becomes (tok, ()).
RepackPayload(p, nodes, operand, logical_channel) ==
  LET addr_type == BitsType(p.from_config.addr_width)
      data_type == BitsType(p.from_config.width)
      mask_type == BitsType(p.from_config.mask_width)
      loc       == nodes[operand].loc
      we        == IF logical_channel = "kWriteReq" THEN 1 ELSE 0
      Literal(value, bit_count) ==
        Node("literal", BitsType(bit_count), 0, 0, 0, 0, <<>>, value, FALSE, loc)
      Tuple(type, elements) ==
        Node("tuple", type, 0, 0, 0, 0, elements, 0, FALSE, loc)
      Repacked(extracted, last) ==
        IF extracted.status # "ok"
        THEN [status |-> extracted.status, nodes |-> extracted.nodes, node |-> 0]
        ELSE CASE logical_channel = "kReadReq" ->
               [status |-> "ok",
                nodes  |-> extracted.nodes \o
                  <<Literal(0, p.to_config.width), Literal(we, 1), Literal(1 - we, 1),
                    Tuple(TupleType(<<addr_type, BitsType(p.to_config.width),
                                      BitsType(1), BitsType(1)>>),
                          <<extracted.elements[1], last + 1, last + 2, last + 3>>)>>,
                node   |-> last + 4]
          [] logical_channel = "kReadResp" ->
               [status |-> "ok",
                nodes  |-> RemoveNode(RemoveNode(extracted.nodes,
                                                 extracted.elements[1]),
                                      extracted.elements[2]),
                node   |-> operand]
          [] logical_channel = "kWriteReq" ->
               [status |-> "ok",
                nodes  |-> extracted.nodes \o
                  <<Literal(we, 1), Literal(1 - we, 1),
                    Tuple(TupleType(<<addr_type, data_type, BitsType(1), BitsType(1)>>),
                          <<extracted.elements[1], extracted.elements[2],
                            last + 1, last + 2>>)>>,
                node   |-> last + 3]
          [] OTHER ->
               [status |-> "ok",
                nodes  |-> extracted.nodes \o
                  <<Tuple(TupleType(<<>>), <<>>),
                    Tuple(TupleType(<<TokenType, TupleType(<<>>)>>),
                          <<extracted.elements[1], last + 1>>)>>,
                node   |-> last + 2]
  IN  IF ~(p.from_config.kind = "kAbstract" /\ p.to_config.kind = "k1RW")
         \/ logical_channel \notin {"kReadReq", "kReadResp", "kWriteReq", "kWriteResp"}
      THEN [status |-> "error", nodes |-> nodes, node |-> 0]
      ELSE Repacked(
             ExtractTupleElements(nodes, operand,
               CASE logical_channel = "kReadReq"  -> <<addr_type, mask_type>>
                 [] logical_channel = "kWriteReq" -> <<addr_type, data_type, mask_type>>
                 [] OTHER -> <<TokenType, TupleType(<<data_type>>)>>),
             Len(nodes) + (IF logical_channel = "kWriteReq" THEN 3 ELSE 2))

\* reverse_from_mapping.find(channel): the logical names of a channel.
ReverseFromMapping(p, channel_id) ==
  {l \in DOMAIN p.from_mapping : p.from_mapping[l] = channel_id}

\* The send branch of the loop body for node n. GetChannel fails for a
\* channel the package does not have, to_mapping.at throws for a logical
\* channel the new mapping does not have.
ReplaceSend(p, nodes, n) ==
  LET old_send == nodes[n]
      found    == ReverseFromMapping(p, old_send.channel_id)
      logical_channel     == CHOOSE l \in found : TRUE
      new_logical_channel == MapChannel(p.from_config.kind, logical_channel,
                                        p.to_config.kind)
      Replaced(made, replaced) ==
        IF ~replaced.ok THEN [status |-> "error", nodes |-> made]
        ELSE [status |-> "ok", nodes |-> RemoveNode(replaced.nodes, n)]
      WithNew(made) == Replaced(made, ReplaceUsesWith(made, n, Len(made)))
      Sent(repacked) ==
        IF repacked.status # "ok"
        THEN [status |-> repacked.status, nodes |-> repacked.nodes]
        ELSE WithNew(Append(repacked.nodes,
                            Node("send", TokenType,
                                 p.to_mapping[new_logical_channel],
                                 old_send.token, old_send.predicate,
                                 repacked.node, <<>>, 0, FALSE, old_send.loc)))
  IN  IF ~(old_send.channel_id \in 1 .. Len(p.channels)
           /\ p.channels[old_send.channel_id].live)
      THEN [status |-> "error", nodes |-> nodes]
      ELSE IF found = {} THEN [status |-> "ok", nodes |-> nodes]
      ELSE IF new_logical_channel = "error"
      THEN [status |-> "error", nodes |-> nodes]
      ELSE IF new_logical_channel \notin DOMAIN p.to_mapping
      THEN [status |-> "fatal", nodes |-> nodes]
      ELSE Sent(RepackPayload(p, nodes, old_send.data, logical_channel))

\* The receive branch of the loop body for node n.
ReplaceReceive(p, nodes, n) ==
  LET old_receive == nodes[n]
      found       == ReverseFromMapping(p, old_receive.channel_id)
      logical_channel     == CHOOSE l \in found : TRUE
      new_logical_channel == MapChannel(p.from_config.kind, logical_channel,
                                        p.to_config.kind)
      new_channel_id == p.to_mapping[new_logical_channel]
      new_receive == Node("receive",
                          ReceiveType(p.channels[new_channel_id].type,
                                      old_receive.is_blocking),
                          new_channel_id, old_receive.token, old_receive.predicate,
                          0, <<>>, 0, old_receive.is_blocking, old_receive.loc)
      Replaced(made, replaced) ==
        IF ~replaced.ok THEN [status |-> "error", nodes |-> made]
        ELSE [status |-> "ok", nodes |-> RemoveNode(replaced.nodes, n)]
      Received(repacked) ==
        IF repacked.status # "ok"
        THEN [status |-> repacked.status, nodes |-> repacked.nodes]
        ELSE Replaced(repacked.nodes,
                      ReplaceUsesWith(repacked.nodes, n, repacked.node))
  IN  IF ~(old_receive.channel_id \in 1 .. Len(p.channels)
           /\ p.channels[old_receive.channel_id].live)
      THEN [status |-> "error", nodes |-> nodes]
      ELSE IF found = {} THEN [status |-> "ok", nodes |-> nodes]
      ELSE IF new_logical_channel = "error"
      THEN [status |-> "error", nodes |-> nodes]
      ELSE IF new_logical_channel \notin DOMAIN p.to_mapping
      THEN [status |-> "fatal", nodes |-> nodes]
      ELSE Received(RepackPayload(p, Append(nodes, new_receive), Len(nodes) + 1,
                                  logical_channel))

\* The inner loop that passes over the receives.
RECURSIVE ReplaceInProcSendsOnly(_, _, _, _)
ReplaceInProcSendsOnly(p, nodes, i, last) ==
  IF i > last THEN [status |-> "ok", nodes |-> nodes]
  ELSE LET step == IF nodes[i].op = "send" THEN ReplaceSend(p, nodes, i)
                   ELSE [status |-> "ok", nodes |-> nodes]
       IN  IF step.status = "ok"
           THEN ReplaceInProcSendsOnly(p, step.nodes, i + 1, last) ELSE step

\* The inner loop from position i of TopoSort(proc), taken before the first
\* change: the positions 1 .. last of the proc as it was.
RECURSIVE ReplaceInProc(_, _, _, _)
ReplaceInProc(p, nodes, i, last) ==
  IF i > last THEN [status |-> "ok", nodes |-> nodes]
  ELSE LET step == CASE nodes[i].op = "send"    -> ReplaceSend(p, nodes, i)
                     [] nodes[i].op = "receive" -> ReplaceReceive(p, nodes, i)
                     [] OTHER -> [status |-> "ok", nodes |-> nodes]
       IN  IF step.status = "ok" THEN ReplaceInProc(p, step.nodes, i + 1, last)
           ELSE step

\* The outer loop from proc i: the first error ends the pass.
RECURSIVE ReplaceInProcs(_, _, _)
ReplaceInProcs(p, procs, i) ==
  IF i > Len(procs) THEN [status |-> "ok", procs |-> procs]
  ELSE LET done == ReplaceInProc(p, procs[i], 1, Len(procs[i]))
           next == [procs EXCEPT ![i] = done.nodes]
       IN  IF done.status = "ok" THEN ReplaceInProcs(p, next, i + 1)
           ELSE [status |-> done.status, procs |-> next]

\* ReplaceChannelReferences on the package p: its procs, its channels, the
\* two mappings from logical channels to channel ids and the two RAM
\* configurations.
ReplaceChannelReferences(p) ==
  IF \E l, m \in DOMAIN p.from_mapping : l # m /\ p.from_mapping[l] = p.from_mapping[m]
  THEN [status |-> "error", procs |-> p.procs]
  ELSE ReplaceInProcs(p, p.procs, 1)

DoReplaceChannelReferences ==
  /\ op = "init"
  /\ op' = "ReplaceChannelReferences"
  /\ result' = ReplaceChannelReferences(operands[1])
  /\ UNCHANGED <<operands, arg, tern>>

\* ------------------------------------------------------------------ RAM rewrite: the pass
RamLogicalChannelFromName(name) ==
  CASE name = "read_req"   -> "kReadReq"
    [] name = "read_resp"  -> "kReadResp"
    [] name = "write_req"  -> "kWriteReq"
    [] name = "write_resp" -> "kWriteResp"
    [] name = "req"        -> "kReq"
    [] name = "resp"       -> "kResp"
    [] OTHER -> "error"

\* RamRewritePass::RunInternal from rewrite i, without a model builder, on
\* the procs and channels p of the package. A rewrite resolves the old
\* channels by name, makes the channels of the new RAM, replaces the channel
\* references and removes the old channels; the first error ends the pass
\* with what was done before it. A removed channel keeps its id. After
\* ReplaceChannelReferences no send or receive is on an old channel, so
\* RemoveChannel has none to refuse.
RECURSIVE RunInternal(_, _, _)
RunInternal(p, ram_rewrites, i) ==
  IF i > Len(ram_rewrites)
  THEN [status |-> "ok", changed |-> Len(ram_rewrites) > 0,
        procs |-> p.procs, channels |-> p.channels]
  ELSE LET rewrite == ram_rewrites[i]
           names   == rewrite.from_channels_logical_to_physical
           GetChannel(name) ==
             {c \in 1 .. Len(p.channels) :
                p.channels[c].live /\ p.channels[c].name = name}
           Removed(procs, channels, old_ids) ==
             RunInternal(
               [procs    |-> procs,
                channels |-> [c \in 1 .. Len(channels) |->
                                [channels[c] EXCEPT !.live = @ /\ c \notin old_ids]]],
               ram_rewrites, i + 1)
           Replaced(replaced, channels, old_logical_to_channels) ==
             IF replaced.status # "ok"
             THEN [status |-> replaced.status, changed |-> FALSE,
                   procs |-> replaced.procs, channels |-> channels]
             ELSE Removed(replaced.procs, channels,
                          {old_logical_to_channels[k] :
                             k \in DOMAIN old_logical_to_channels})
           Made(made, old_logical_to_channels) ==
             IF made.status # "ok"
             THEN [status |-> made.status, changed |-> FALSE,
                   procs |-> p.procs, channels |-> made.channels]
             ELSE Replaced(
                    ReplaceChannelReferences(
                      [procs |-> p.procs, channels |-> made.channels,
                       from_mapping |-> old_logical_to_channels,
                       to_mapping |-> made.mapping,
                       from_config |-> rewrite.from_config,
                       to_config |-> rewrite.to_config]),
                    made.channels, old_logical_to_channels)
       IN  IF \E l \in DOMAIN names :
                RamLogicalChannelFromName(l) = "error" \/ GetChannel(names[l]) = {}
           THEN [status |-> "error", changed |-> FALSE,
                 procs |-> p.procs, channels |-> p.channels]
           ELSE Made(MakeChannels(p.channels, rewrite.to_name_prefix,
                                  rewrite.to_config),
                     [k \in {RamLogicalChannelFromName(l) : l \in DOMAIN names} |->
                        CHOOSE c \in 1 .. Len(p.channels) :
                          \E l \in DOMAIN names :
                            /\ RamLogicalChannelFromName(l) = k
                            /\ c \in GetChannel(names[l])])

\* The names a rewrite gives for the old channels of the package p: those of
\* its old mapping, the same with a physical name no channel has, and the
\* same with a logical name no RAM has.
FromChannelNames(p, variant) ==
  LET logical == {name \in {"read_req", "read_resp", "write_req", "write_resp",
                            "req", "resp"} :
                    RamLogicalChannelFromName(name) \in DOMAIN p.from_mapping}
  IN  [name \in logical \cup (IF variant = 3 THEN {"ram"} ELSE {}) |->
         IF name = "ram" \/ (variant = 2 /\ name \in {"read_req", "req"})
         THEN "missing"
         ELSE p.channels[p.from_mapping[RamLogicalChannelFromName(name)]].name]

\* The pass with no rewrite, one rewrite or the same rewrite twice.
DoRunInternal ==
  /\ op = "init"
  /\ \E n \in 0 .. MaxRewrites : \E variant \in 1 .. 3 :
       /\ variant = 1 \/ n = 1
       /\ arg' = <<n, variant>>
       /\ result' =
            RunInternal(
              [procs |-> operands[1].procs, channels |-> operands[1].channels],
              [i \in 1 .. n |->
                 [from_config |-> operands[1].from_config,
                  from_channels_logical_to_physical |->
                    FromChannelNames(operands[1], variant),
                  to_config |-> operands[1].to_config,
                  to_name_prefix |-> "fresh"]],
              1)
  /\ op' = "RunInternal"
  /\ UNCHANGED <<operands, tern>>

\* ------------------------------------------------------------------ RAM rewrite runs
\* The channels of an abstract RAM, a mapping with two names for one channel
\* and a mapping under the names of a 1RW RAM. Channel 5 belongs to no RAM.
FromMappings ==
  {[l \in {"kReadReq", "kReadResp", "kWriteReq", "kWriteResp"} |->
      CASE l = "kReadReq" -> 1 [] l = "kReadResp" -> 2
        [] l = "kWriteReq" -> 3 [] l = "kWriteResp" -> 4],
   [l \in {"kReadReq", "kReadResp", "kWriteReq", "kWriteResp"} |->
      CASE l = "kReadReq" -> 1 [] l = "kReadResp" -> 2
        [] l = "kWriteReq" -> 1 [] l = "kWriteResp" -> 4],
   [l \in {"kReq", "kResp"} |-> IF l = "kReq" THEN 1 ELSE 2]}

\* A RAM of 16 words of 8 bits, with no write mask or with one mask bit per
\* data bit.
RamConfig(kind, width, mask_width) ==
  [kind |-> kind, width |-> width, addr_width |-> 4, mask_width |-> mask_width]

RamConfigs ==
  {<<RamConfig("kAbstract", 8, 0), RamConfig("k1RW", 8, 0)>>,
   <<RamConfig("kAbstract", 8, 0), RamConfig("k1RW", 16, 0)>>,
   <<RamConfig("kAbstract", 8, 8), RamConfig("k1RW", 8, 0)>>,
   <<RamConfig("kAbstract", 8, 0), RamConfig("k1R1W", 8, 0)>>,
   <<RamConfig("k1RW", 8, 0), RamConfig("k1RW", 8, 0)>>}

\* The channels 1 .. 5 of the package: those MakeChannels gives an abstract
\* RAM of the old widths, and channel 5 with plain data.
OldChannels(from_config) ==
  MakeChannels(<<>>, "old", [from_config EXCEPT !.kind = "kAbstract"]).channels
    \o <<[name |-> "other", type |-> BitsType(8), live |-> TRUE]>>

\* The parameters every proc starts with: its token, a read request, a write
\* request and a predicate.
ProcParams(channels) ==
  <<Node("param", TokenType, 0, 0, 0, 0, <<>>, 0, FALSE, 1),
    Node("param", channels[1].type, 0, 0, 0, 0, <<>>, 0, FALSE, 2),
    Node("param", channels[3].type, 0, 0, 0, 0, <<>>, 0, FALSE, 3),
    Node("param", BitsType(1), 0, 0, 0, 0, <<>>, 0, FALSE, 4)>>

\* The sends and receives that can stand at position i: on a channel of the
\* old RAM or on channel 5, after the proc token or an earlier send or receive.
ChannelNodes(channels, i) ==
  {Node("send", TokenType, c, t, q, d, <<>>, 0, FALSE, i) :
     <<c, t, q, d>> \in (1 .. 5) \X ({1} \cup (5 .. i - 1)) \X {0, 4} \X {2, 3}}
  \cup {Node("receive", ReceiveType(channels[c].type, b), c, t, q, 0, <<>>, 0, b, i) :
          <<c, t, q, b>> \in (1 .. 5) \X ({1} \cup (5 .. i - 1)) \X {0, 4} \X BOOLEAN}

\* Procs with one or two sends and receives.
Procs(channels, n) ==
  IF n = 1 THEN {ProcParams(channels) \o <<a>> : a \in ChannelNodes(channels, 5)}
  ELSE {ProcParams(channels) \o <<a, b>> :
          <<a, b>> \in ChannelNodes(channels, 5) \X ChannelNodes(channels, 6)}

\* A package with the old channels and, where MakeChannels makes them, the
\* channels of the new RAM under the ids after them.
InitRam ==
  /\ op = "init"
  /\ \E from_mapping \in FromMappings : \E configs \in RamConfigs :
       LET old == OldChannels(configs[1])
           new == MakeChannels(old, "new", configs[2])
       IN  \E procs \in {<<x>> : x \in Procs(old, 2)}
                          \cup (Procs(old, 1) \X Procs(old, 1)) :
             operands = <<[procs |-> procs, channels |-> new.channels,
                           from_mapping |-> from_mapping,
                           to_mapping |-> new.mapping,
                           from_config |-> configs[1], to_config |-> configs[2]]>>
  /\ arg = <<>>
  /\ tern = <<>>
  /\ result = NoSet

SpecRam == InitRam /\ [][DoReplaceChannelReferences \/ DoRunInternal]_vars

\* The channel ids of the old mapping.
FromChannelIds(p) == {p.from_mapping[l] : l \in DOMAIN p.from_mapping}

\* Node n of the proc old is a send or receive on a channel of the old mapping.
OnOldChannel(p, old, n) ==
  old[n].op \in {"send", "receive"} /\ old[n].channel_id \in FromChannelIds(p)

\* The nodes added to the proc with the operation and location of old node n.
NewNodes(old, new, n) ==
  {m \in Len(old) + 1 .. Len(new) : new[m].op = old[n].op /\ new[m].loc = old[n].loc}

\* Node t of the proc new is element index of node m.
IsTupleIndex(new, t, m, index) ==
  new[t].op = "tuple_index" /\ new[t].data = m /\ new[t].value = index

\* Node t of the proc new is the literal value of one bit.
IsBitLiteral(new, t, value) ==
  new[t].op = "literal" /\ new[t].type = BitsType(1) /\ new[t].value = value

\* What stands for old node t after the pass: t itself, the new send, the new
\* receive of a read response, or the (tok, ()) repacked from the new receive
\* of a write response.
Standing(p, old, new, t) ==
  IF t = 0 \/ ~OnOldChannel(p, old, t) THEN t
  ELSE LET m == CHOOSE m \in NewNodes(old, new, t) : TRUE
       IN  IF old[t].op = "receive" /\ old[t].channel_id = p.from_mapping["kWriteResp"]
           THEN CHOOSE r \in 1 .. Len(new) :
                  /\ new[r].op = "tuple"
                  /\ Len(new[r].elements) = 2
                  /\ IsTupleIndex(new, new[r].elements[1], m, 0)
                  /\ new[new[r].elements[2]].op = "tuple"
                  /\ new[new[r].elements[2]].elements = <<>>
           ELSE m

\* The channel of the new RAM for channel c of the old one.
NewChannel(p, c) ==
  IF c \in {p.from_mapping["kReadReq"], p.from_mapping["kWriteReq"]}
  THEN p.to_mapping["kReq"] ELSE p.to_mapping["kResp"]

\* Node t of the proc new is the request of the new RAM repacked from the
\* payload data of an old send on channel c: (addr, 0, 0, 1) for a read and
\* (addr, data, 1, 0) for a write.
IsRepackedRequest(p, new, t, data, c) ==
  /\ new[t].op = "tuple"
  /\ Len(new[t].elements) = 4
  /\ IsTupleIndex(new, new[t].elements[1], data, 0)
  /\ IF c = p.from_mapping["kWriteReq"]
     THEN /\ IsTupleIndex(new, new[t].elements[2], data, 1)
          /\ IsBitLiteral(new, new[t].elements[3], 1)
          /\ IsBitLiteral(new, new[t].elements[4], 0)
     ELSE /\ new[new[t].elements[2]].op = "literal"
          /\ new[new[t].elements[2]].type = BitsType(p.to_config.width)
          /\ new[new[t].elements[2]].value = 0
          /\ IsBitLiteral(new, new[t].elements[3], 0)
          /\ IsBitLiteral(new, new[t].elements[4], 1)

\* The replacement in one proc, old before and new after the pass.
ChannelReferencesReplacedIn(p, old, new) ==
  /\ \A m \in 1 .. Len(new) :
       new[m].op \in {"send", "receive"} => new[m].channel_id \notin FromChannelIds(p)
  /\ \A n \in 1 .. Len(old) :
       IF OnOldChannel(p, old, n)
       THEN /\ new[n].op = "removed"
            /\ Cardinality(NewNodes(old, new, n)) = 1
            /\ \A m \in NewNodes(old, new, n) :
                 /\ new[m].channel_id = NewChannel(p, old[n].channel_id)
                 /\ new[m].token = Standing(p, old, new, old[n].token)
                 /\ new[m].predicate = Standing(p, old, new, old[n].predicate)
                 /\ new[m].is_blocking = old[n].is_blocking
                 /\ old[n].op = "send" =>
                      IsRepackedRequest(p, new, new[m].data,
                                        Standing(p, old, new, old[n].data),
                                        old[n].channel_id)
       ELSE new[n] = [old[n] EXCEPT !.token = Standing(p, old, new, @),
                                    !.predicate = Standing(p, old, new, @),
                                    !.data = Standing(p, old, new, @)]

\* C27: after ReplaceChannelReferences succeeds no send or receive is on a
\* channel of the old mapping; each one that was is removed and replaced by a
\* send or receive on the channel MapChannel chooses, with the old token,
\* predicate and blocking flag, a send carrying the repacked payload and
\* every use going to the new send or to the repacked output of the new
\* receive; the other sends and receives stay as they are.
ChannelReferencesReplaced ==
  (op = "ReplaceChannelReferences" /\ result.status = "ok") =>
    \A i \in 1 .. Len(operands[1].procs) :
      ChannelReferencesReplacedIn(operands[1], operands[1].procs[i], result.procs[i])

\* A receive of a write response followed by a send on a channel outside the
\* mapping that takes its token: the send now takes the token from the
\* (tok, ()) repacked from the new receive on the response channel.
ChannelReferencesReplacedWitness ==
  /\ op = "ReplaceChannelReferences"
  /\ result.status = "ok"
  /\ Len(operands[1].procs) = 1
  /\ LET old == operands[1].procs[1]
         new == result.procs[1]
     IN  /\ Len(old) = 6
         /\ old[5].op = "receive" /\ old[5].channel_id = 4
         /\ old[6].op = "send" /\ old[6].channel_id = 5 /\ old[6].token = 5
         /\ new[5].op = "removed"
         /\ new[6].op = "send" /\ new[6].channel_id = 5
         /\ new[new[6].token].op = "tuple"
         /\ new[new[new[new[6].token].elements[1]].data].op = "receive"
         /\ new[new[new[new[6].token].elements[1]].data].channel_id
              = operands[1].to_mapping["kResp"]

====
